---- MODULE Spec2Model ----
(***************************************************************************)
(* State-machine model of the nofx auto-trader: the Binance futures        *)
(* adapter (caches, cooldown registry, trailing stop), the limit-order     *)
(* executor and Order Manager, the Trading Constraints gate and the        *)
(* per-tick loop of the AutoTrader.                                        *)
(*                                                                         *)
(* Units.  Prices are integers in units of 0.1 USDT, quantities in units   *)
(* of 0.0001 contract, money in cents.  A quantity q at price p is worth   *)
(* q * p / 1000 cents.  Durations are minutes.  Timestamps are kept as     *)
(* the time that is left until the deadline they define, so that           *)
(* time.Since(t) < d reads "left > 0".                                     *)
(***************************************************************************)
EXTENDS Integers, Sequences, FiniteSets, TLC

\* ------------------------------------------------------------------ bounds
MaxOrders == 3          \* limit orders the venue accepts in one run
MaxTicks == 2           \* ticks of the scheduler in one run
MaxDecisions == 3       \* decisions executed in one run
MaxFaults == 1          \* failing steps in one run
InitialWallet == 200000 \* wallet balance at start, cents (2000 USDT)

\* ------------------------------------------------------- program constants
CacheDuration == 1       \* adapter cache TTL, minutes
CooldownDuration == 20   \* adapter and constraints cooldown, minutes
MaxPositions == 3        \* concurrent position cap
HourlyCap == 3           \* opens per rolling hour
HourWindow == 60         \* the rolling hour, minutes
MarginLimitPct == 90     \* hard cap on projected margin utilisation
MinNotional == 10000     \* minimum order notional, cents (100 USDT)
TrailTriggerPct == 5     \* profit on margin that arms the trailing stop
TrailMinProfit == 100    \* absolute profit that arms it, cents (1 USDT)
StopTradingTime == 10    \* pause after a risk-control stop, minutes (config)

\* ------------------------------------------------------------ model domain
Symbols == {"BTCUSDT", "ETHUSDT", "SOLUSDT"}
Sides == {"long", "short"}
PosKeySeq == << <<"BTCUSDT", "long">>, <<"BTCUSDT", "short">>,
                <<"ETHUSDT", "long">>, <<"ETHUSDT", "short">>,
                <<"SOLUSDT", "long">>, <<"SOLUSDT", "short">> >>
PosKeys == Symbols \X Sides
PriceLevels == {9000, 9100, 10000, 10900, 11000}  \* mark prices of the venue
PositionSizes == {16000}  \* position sizes the orchestrator proposes, cents
Leverages == {1}
TimeSteps == {3, 20}      \* minutes from one tick to the next
PriceTick == 10          \* venue tick size in price units (1 USDT)
StepSize == 10           \* venue lot step in quantity units (0.001)
SymbolSeq == <<"BTCUSDT", "ETHUSDT", "SOLUSDT">>
NIL == "nil"

\* a statement's result r handed on to the statements that follow it:
\* With([r \in {statement} |-> the statements that follow])
With(step) == step[CHOOSE r \in DOMAIN step : TRUE]

Abs(x) == IF x < 0 THEN -x ELSE x
Max(a, b) == IF a > b THEN a ELSE b
Min(a, b) == IF a < b THEN a ELSE b

\* rounded division, half away from zero for non-negative numerators
RoundDiv(n, d) == (2 * n + d) \div (2 * d)

\* fmt.Sprintf("%.*f", precision, x): round to the venue precision
FormatPrice(p) == RoundDiv(p, PriceTick) * PriceTick
FormatQuantity(q) == RoundDiv(q, StepSize) * StepSize

\* notional value in cents of quantity q at price p
Notional(q, p) == (q * p) \div 1000
\* quantity bought by usd cents at price p
QtyFor(usd, p) == (usd * 1000) \div p

NoPos == [qty |-> 0, entry |-> 0, lev |-> 0]
NoBalance == [cached |-> FALSE, totalWalletBalance |-> 0, availableBalance |-> 0,
              totalUnrealizedProfit |-> 0]
NoLimit == [status |-> "NONE", symbol |-> NIL, side |-> NIL, price |-> 0,
            qty |-> 0, executedQty |-> 0, lev |-> 0]

\* ------------------------------------------------------------------ faults
\* In one step of the trader every venue call of one class may fail:
\*   fetch  - the account and position queries
\*   list   - the open-orders and order-status queries
\*   cancel - the cancel requests
\*   stop   - the stop order submissions
\*   tp     - the take-profit submissions
\*   order  - leverage, margin type, entry, exit and limit orders

VARIABLES
    ex,            \* venue and FuturesTrader adapter state, with the call log
    constraints,   \* TradingConstraints: cooldowns and the rolling-hour opens
    orderManager,  \* OrderManager.activeOrders: symbol -> LimitOrder
    pc,            \* position of runCycle
    ctx,           \* decision.Context built this tick
    dec,           \* progress through this tick's sorted decisions
    tick,          \* cycles run so far (callCount)
    obs,           \* observations of the current tick, for the properties
    at,            \* AutoTrader: its configuration and its risk-control state
    run            \* goroutines that execute limit decisions side by side

vars == <<ex, constraints, orderManager, pc, ctx, dec, tick, obs, at, run>>

\* ------------------------------------------------------------------- venue
Resting == {"NEW", "PARTIALLY_FILLED"}

Call(op, by, symbol, side, price, qty, ok, held) ==
    [op |-> op, by |-> by, symbol |-> symbol, side |-> side, price |-> price,
     qty |-> qty, ok |-> ok, held |-> held]

Log(e, c) == [e EXCEPT !.calls = Append(@, c)]

\* a query of the venue
Read(op, by, symbol, ok) == Call(op, by, symbol, NIL, 0, 0, ok, FALSE)

\* the failure class of each venue call
FaultOf(op) ==
    CASE op \in {"ACCOUNT", "POSITIONS"} -> "fetch"
      [] op \in {"OPEN_ORDERS", "ORDER_STATUS", "ORDER_DETAIL"} -> "list"
      [] op \in {"CANCEL", "CANCEL_ALL"} -> "cancel"
      [] op = "STOP_MARKET" -> "stop"
      [] op = "TAKE_PROFIT_MARKET" -> "tp"
      [] op = "SAVE" -> "disk"
      [] op \in {"LEVERAGE", "MARGIN_TYPE", "MARKET_OPEN", "MARKET_CLOSE",
                 "LIMIT"} -> "order"

Held(e, symbol, side) == e.pos[<<symbol, side>>].qty > 0

\* unrealized profit of a position in cents, as the venue reports it
Unrealized(p, side, mark) ==
    IF side = "long" THEN ((mark - p.entry) * p.qty) \div 1000
    ELSE ((p.entry - mark) * p.qty) \div 1000

TotalUnrealized(e) ==
    LET U[i \in 0..Len(PosKeySeq)] ==
          IF i = 0 THEN 0
          ELSE U[i - 1] + Unrealized(e.pos[PosKeySeq[i]], PosKeySeq[i][2],
                                     e.mark[PosKeySeq[i][1]])
    IN U[Len(PosKeySeq)]

VenuePositionMargin(e) ==
    LET M[i \in 0..Len(PosKeySeq)] ==
          IF i = 0 THEN 0
          ELSE LET p == e.pos[PosKeySeq[i]]
               IN M[i - 1] + (IF p.qty > 0
                              THEN Notional(p.qty, e.mark[PosKeySeq[i][1]]) \div p.lev
                              ELSE 0)
    IN M[Len(PosKeySeq)]

VenueOrderMargin(e) ==
    LET M[i \in 0..MaxOrders] ==
          IF i = 0 THEN 0
          ELSE LET o == e.lim[i]
               IN M[i - 1] + (IF o.status \in Resting
                              THEN Notional(o.qty - o.executedQty, o.price) \div o.lev
                              ELSE 0)
    IN M[MaxOrders]

\* the venue's account endpoint
VenueAccount(e) ==
    [totalWalletBalance |-> e.wallet,
     availableBalance |-> Max(0, e.wallet + TotalUnrealized(e)
                                  - VenuePositionMargin(e) - VenueOrderMargin(e)),
     totalUnrealizedProfit |-> TotalUnrealized(e)]

\* the venue's cancel-all-open-orders endpoint for one symbol
VenueCancelAll(e, symbol) ==
    LET lim == e.lim
    IN [e EXCEPT
          !.orders = SelectSeq(@, LAMBDA o : o.symbol # symbol),
          !.lim = [i \in DOMAIN lim |->
                     IF lim[i].symbol = symbol /\ lim[i].status \in Resting
                     THEN [lim[i] EXCEPT !.status = "CANCELED"] ELSE lim[i]]]

\* the venue fills q at price px into the (symbol, side) position
VenueFill(e, symbol, side, q, px, lev) ==
    LET p == e.pos[<<symbol, side>>]
        np == IF p.qty = 0 THEN [qty |-> q, entry |-> px, lev |-> lev]
              ELSE [qty |-> p.qty + q,
                    entry |-> (p.qty * p.entry + q * px) \div (p.qty + q),
                    lev |-> lev]
    IN [e EXCEPT !.pos[<<symbol, side>>] = np]

\* the venue closes q of the (symbol, side) position at the mark price
VenueReduce(e, symbol, side, q) ==
    LET p == e.pos[<<symbol, side>>]
        c == Min(q, p.qty)
        pnl == Unrealized([p EXCEPT !.qty = c], side, e.mark[symbol])
    IN [e EXCEPT !.pos[<<symbol, side>>] =
                     IF c = p.qty THEN NoPos ELSE [p EXCEPT !.qty = p.qty - c],
                 !.wallet = @ + pnl]

\* the venue refuses an entry order the free balance cannot margin
VenueRefuses(e, q, price, leverage) ==
    VenueAccount(e).availableBalance < Notional(q, price) \div leverage

\* --------------------------------------------------- FuturesTrader adapter
invalidateCache(e) ==
    [e EXCEPT !.cachedBalance = NoBalance, !.cachedPositions = <<>>]

\* GetBalance: the cached account while it is valid, else the account endpoint
GetBalance(e, f) ==
    IF e.cachedBalance.cached
    THEN [ex |-> e, err |-> FALSE, res |-> e.cachedBalance]
    ELSE IF f = "fetch"
    THEN [ex |-> Log(e, Read("ACCOUNT", "GetBalance", NIL, FALSE)),
          err |-> TRUE, res |-> NoBalance]
    ELSE LET a == VenueAccount(e)
             b == [cached |-> TRUE,
                   totalWalletBalance |-> a.totalWalletBalance,
                   availableBalance |-> a.availableBalance,
                   totalUnrealizedProfit |-> a.totalUnrealizedProfit]
         IN [ex |-> Log([e EXCEPT !.cachedBalance = b],
                        Read("ACCOUNT", "GetBalance", NIL, TRUE)),
             err |-> FALSE, res |-> b]

\* the position-risk endpoint: one posMap per non-zero position
PosMap(e, k) ==
    [symbol |-> k[1], side |-> k[2], positionAmt |-> e.pos[k].qty,
     entryPrice |-> e.pos[k].entry, markPrice |-> e.mark[k[1]],
     unRealizedProfit |-> Unrealized(e.pos[k], k[2], e.mark[k[1]]),
     leverage |-> e.pos[k].lev]

VenuePositions(e) ==
    LET R[i \in 0..Len(PosKeySeq)] ==
          IF i = 0 THEN <<>>
          ELSE IF e.pos[PosKeySeq[i]].qty > 0
               THEN Append(R[i - 1], PosMap(e, PosKeySeq[i]))
               ELSE R[i - 1]
    IN R[Len(PosKeySeq)]

\* the venue refuses a trigger order whose trigger is already crossed
WouldTrigger(e, symbol, side, type, price) ==
    IF (side = "long") = (type = "STOP_MARKET")
    THEN e.mark[symbol] <= price
    ELSE e.mark[symbol] >= price

StopOrder(symbol, side, type, price, qty) ==
    [symbol |-> symbol, side |-> side, type |-> type, stopPrice |-> price,
     qty |-> qty]

\* submit a close-position trigger order; "down" says the endpoint is failing
SubmitTrigger(e, by, symbol, side, type, price, qty, down) ==
    LET ok == ~down /\ ~WouldTrigger(e, symbol, side, type, price)
        e1 == IF ok
              THEN [e EXCEPT !.orders =
                        Append(@, StopOrder(symbol, side, type, price, qty))]
              ELSE e
    IN [ex |-> Log(e1, Call(type, by, symbol, side, price, qty, ok,
                            Held(e, symbol, side))),
        err |-> ~ok]

\* the stop price of the first resting STOP_MARKET of a position side, 0 if
\* there is none
RestingStop(e, symbol, side) ==
    LET stops == SelectSeq(e.orders, LAMBDA o : o.symbol = symbol
                               /\ o.type = "STOP_MARKET" /\ o.side = side)
    IN IF stops = <<>> THEN 0 ELSE stops[1].stopPrice

\* getCurrentStopLoss: list the open orders, return the first STOP_MARKET of
\* the position side; an error when the query fails or there is none
getCurrentStopLoss(e, symbol, side, f) ==
    [ex |-> Log(e, Read("OPEN_ORDERS", "getCurrentStopLoss", symbol, f # "list")),
     err |-> f = "list" \/ RestingStop(e, symbol, side) = 0,
     price |-> IF f = "list" THEN 0 ELSE RestingStop(e, symbol, side)]

\* a stop update that cancels and leaves the new stop to a later call
updateStopLossCancelOnly(e, symbol, side, positionAmt, newStopLoss, f) ==
    LET old == RestingStop(e, symbol, side)
        held == Held(e, symbol, side)
    IN [ex |-> Log(IF f = "cancel" THEN e ELSE VenueCancelAll(e, symbol),
                   Call("CANCEL_ALL", "updateStopLoss", symbol, side, old, 0,
                        f # "cancel", held)),
        err |-> f = "cancel"]

\* updateStopLoss: format, cancel every open order of the symbol, then submit
\* the new stop at once; a failed cancel returns before anything is touched
updateStopLoss(e, symbol, side, positionAmt, newStopLoss, f) ==
    LET quantity == FormatQuantity(Abs(positionAmt))
        stopPrice == FormatPrice(newStopLoss)
        old == RestingStop(e, symbol, side)
        held == Held(e, symbol, side)
    IN IF f = "cancel"
       THEN [ex |-> Log(e, Call("CANCEL_ALL", "updateStopLoss", symbol, side,
                                old, 0, FALSE, held)),
             err |-> TRUE]
       ELSE SubmitTrigger(
              Log(VenueCancelAll(e, symbol),
                  Call("CANCEL_ALL", "updateStopLoss", symbol, side, old, 0,
                       TRUE, held)),
              "updateStopLoss", symbol, side, "STOP_MARKET", stopPrice,
              quantity, f = "stop")

\* share of the price gain the trailing stop protects, in tenths
ProtectionRatio(p) ==
    LET move == IF p.side = "long" THEN p.markPrice - p.entryPrice
                ELSE p.entryPrice - p.markPrice
    IN IF move * 100 >= 10 * p.entryPrice THEN 8
       ELSE IF move * 100 >= 7 * p.entryPrice THEN 7
       ELSE IF move * 100 >= 5 * p.entryPrice THEN 6
       ELSE IF move * 100 >= 3 * p.entryPrice THEN 5
       ELSE 4

\* a trailing-stop loop without the break-even of the first stop
TrailOneUnclamped(e, p, f) ==
    LET margin == Notional(p.positionAmt, p.entryPrice) \div p.leverage
        belowTrigger == IF margin > 0
                        THEN p.unRealizedProfit * 100 < TrailTriggerPct * margin
                        ELSE TRUE
        gain == IF p.side = "long" THEN p.markPrice - p.entryPrice
                ELSE p.entryPrice - p.markPrice
        raw == IF p.side = "long"
               THEN p.entryPrice + (gain * ProtectionRatio(p)) \div 10
               ELSE p.entryPrice - (gain * ProtectionRatio(p)) \div 10
        breakEven == IF p.side = "long" THEN (p.entryPrice * 1001) \div 1000
                     ELSE (p.entryPrice * 999) \div 1000
        cur == getCurrentStopLoss(e, p.symbol, p.side, f)
        newStopLoss == raw
        shouldUpdate == IF cur.err THEN TRUE
                        ELSE IF p.side = "long" THEN newStopLoss > cur.price
                        ELSE newStopLoss < cur.price
    IN IF belowTrigger \/ Abs(p.unRealizedProfit) < TrailMinProfit THEN e
       ELSE IF shouldUpdate
       THEN updateStopLoss(cur.ex, p.symbol, p.side, p.positionAmt,
                           newStopLoss, f).ex
       ELSE cur.ex

\* one iteration of the trailing-stop loop of GetPositions
TrailOne(e, p, f) ==
    LET margin == Notional(p.positionAmt, p.entryPrice) \div p.leverage
        belowTrigger == IF margin > 0
                        THEN p.unRealizedProfit * 100 < TrailTriggerPct * margin
                        ELSE TRUE
        gain == IF p.side = "long" THEN p.markPrice - p.entryPrice
                ELSE p.entryPrice - p.markPrice
        raw == IF p.side = "long"
               THEN p.entryPrice + (gain * ProtectionRatio(p)) \div 10
               ELSE p.entryPrice - (gain * ProtectionRatio(p)) \div 10
        breakEven == IF p.side = "long" THEN (p.entryPrice * 1001) \div 1000
                     ELSE (p.entryPrice * 999) \div 1000
        cur == getCurrentStopLoss(e, p.symbol, p.side, f)
        newStopLoss == IF ~cur.err THEN raw
                       ELSE IF p.side = "long" THEN Max(raw, breakEven)
                       ELSE Min(raw, breakEven)
        shouldUpdate == IF cur.err THEN TRUE
                        ELSE IF p.side = "long" THEN newStopLoss > cur.price
                        ELSE newStopLoss < cur.price
    IN IF belowTrigger \/ Abs(p.unRealizedProfit) < TrailMinProfit THEN e
       ELSE IF shouldUpdate
       THEN updateStopLoss(cur.ex, p.symbol, p.side, p.positionAmt,
                           newStopLoss, f).ex
       ELSE cur.ex

RECURSIVE TrailLoop(_, _, _, _)
TrailLoop(e, result, i, f) ==
    IF i > Len(result) THEN e
    ELSE TrailLoop(TrailOne(e, result[i], f), result, i + 1, f)

\* GetPositions: the cached list while it is valid (a nil list is never
\* valid, and an empty result is a nil list), else the position endpoint,
\* the trailing-stop loop, and the cache update
GetPositions(e, f) ==
    IF e.cachedPositions # <<>>
    THEN [ex |-> e, err |-> FALSE, res |-> e.cachedPositions]
    ELSE IF f = "fetch"
    THEN [ex |-> Log(e, Read("POSITIONS", "GetPositions", NIL, FALSE)),
          err |-> TRUE, res |-> <<>>]
    ELSE LET result == VenuePositions(e)
             e1 == Log(e, Read("POSITIONS", "GetPositions", NIL, TRUE))
         IN [ex |-> [TrailLoop(e1, result, 1, f) EXCEPT
                        !.cachedPositions = result],
             err |-> FALSE, res |-> result]

\* checkCooldown: an error while the symbol's last close is younger than
\* cooldownDuration
checkCooldown(e, symbol) == e.lastCloseTimes[symbol] > 0

recordCloseTime(e, symbol) ==
    [e EXCEPT !.lastCloseTimes[symbol] = CooldownDuration]

CancelAllOrders(e, symbol, f) ==
    IF f = "cancel"
    THEN [ex |-> Log(e, Call("CANCEL_ALL", "CancelAllOrders", symbol, NIL, 0, 0,
                             FALSE, FALSE)),
          err |-> TRUE]
    ELSE [ex |-> Log(VenueCancelAll(e, symbol),
                     Call("CANCEL_ALL", "CancelAllOrders", symbol, NIL, 0, 0,
                          TRUE, FALSE)),
          err |-> FALSE]

\* SetLeverage: reads the (cached) positions, then changes the leverage
\* unless the symbol already has it
SetLeverage(e, symbol, leverage, f) ==
    With([gp \in {GetPositions(e, f)} |->
      IF ~gp.err /\ \E i \in 1..Len(gp.res) :
                      /\ gp.res[i].symbol = symbol
                      /\ gp.res[i].leverage = leverage
                      /\ \A j \in 1..(i - 1) : gp.res[j].symbol # symbol
      THEN [ex |-> gp.ex, err |-> FALSE]
      ELSE [ex |-> Log(gp.ex, Read("LEVERAGE", "SetLeverage", symbol,
                                   f # "order")),
            err |-> f = "order"]])

\* SetMarginType: switch the symbol to isolated margin
SetMarginType(e, symbol, f) ==
    [ex |-> Log(e, Read("MARGIN_TYPE", "SetMarginType", symbol, f # "order")),
     err |-> f = "order"]

\* quantity is raised to the smallest lot worth 100 USDT when it is worth less
MinQuantity(price) ==
    ((MinNotional * 1000 + price * StepSize - 1) \div (price * StepSize)) * StepSize

\* OpenLong / OpenShort
OpenPosition(e, symbol, side, quantity, leverage, f) ==
    IF checkCooldown(e, symbol) THEN [ex |-> e, err |-> TRUE]
    ELSE
      With([sl \in {SetLeverage(CancelAllOrders(e, symbol, f).ex, symbol,
                               leverage, f)} |->
      IF sl.err THEN [ex |-> sl.ex, err |-> TRUE]
      ELSE
      With([mt \in {SetMarginType(sl.ex, symbol, f)} |->
        LET price == mt.ex.mark[symbol]
            q0 == FormatQuantity(quantity)
            q == IF Notional(q0, price) < MinNotional
                 THEN FormatQuantity(MinQuantity(price)) ELSE q0
            ok == f # "order" /\ ~VenueRefuses(mt.ex, q, price, leverage)
            order == Call("MARKET_OPEN", "Open", symbol, side, price, q, ok,
                          Held(mt.ex, symbol, side))
        IN IF mt.err THEN [ex |-> mt.ex, err |-> TRUE]
           ELSE IF ~ok THEN [ex |-> Log(mt.ex, order), err |-> TRUE]
           ELSE [ex |-> invalidateCache(
                          Log(VenueFill(mt.ex, symbol, side, q, price, leverage),
                              order)),
                 err |-> FALSE]])])

\* index of the first (symbol, side) entry of a position list, 0 if none
FindPos(positions, symbol, side) ==
    LET hit == {i \in 1..Len(positions) :
                  positions[i].symbol = symbol /\ positions[i].side = side}
    IN IF hit = {} THEN 0 ELSE CHOOSE i \in hit : \A j \in hit : i <= j

\* CloseLong / CloseShort with quantity 0: close what GetPositions reports;
\* realized_pnl is computed from the entry price GetPositions reported and
\* the average price of the order's detail, and is 0 when that query fails
ClosePosition(e, symbol, side, f) ==
    With([gp \in {GetPositions(e, f)} |->
      LET i == FindPos(gp.res, symbol, side)
          q == FormatQuantity(gp.res[i].positionAmt)
          held == Held(gp.ex, symbol, side)
          order == Call("MARKET_CLOSE", "Close", symbol, side,
                        gp.ex.mark[symbol], q, f # "order" /\ held, held)
      IN IF gp.err \/ i = 0 THEN [ex |-> gp.ex, err |-> TRUE, pnl |-> 0]
         ELSE IF ~order.ok
         THEN [ex |-> Log(gp.ex, order), err |-> TRUE, pnl |-> 0]
         ELSE [ex |-> recordCloseTime(
                        Log(CancelAllOrders(
                              invalidateCache(
                                Log(VenueReduce(gp.ex, symbol, side, q), order)),
                              symbol, f).ex,
                            Read("ORDER_DETAIL", "Close", symbol, f # "list")),
                        symbol),
               err |-> FALSE,
               pnl |-> IF f = "list" THEN 0
                       ELSE Unrealized([qty |-> gp.res[i].positionAmt,
                                        entry |-> gp.res[i].entryPrice],
                                       side, gp.ex.mark[symbol])]])

SetStopLoss(e, symbol, side, quantity, stopPrice, f) ==
    SubmitTrigger(e, "SetStopLoss", symbol, side, "STOP_MARKET",
                  FormatPrice(stopPrice), FormatQuantity(quantity), f = "stop")

SetTakeProfit(e, symbol, side, quantity, takeProfitPrice, f) ==
    SubmitTrigger(e, "SetTakeProfit", symbol, side, "TAKE_PROFIT_MARKET",
                  FormatPrice(takeProfitPrice), FormatQuantity(quantity),
                  f = "tp")

\* the next order id of the venue, 0 when the run's order budget is spent
FreeOrderId(e) ==
    LET free == {i \in 1..MaxOrders : e.lim[i].status = "NONE"}
    IN IF free = {} THEN 0 ELSE CHOOSE i \in free : \A j \in free : i <= j

PlaceLimitOrder(e, symbol, side, price, quantity, leverage, f) ==
    IF checkCooldown(e, symbol) THEN [ex |-> e, err |-> TRUE, orderId |-> 0]
    ELSE
      With([sl \in {SetLeverage(CancelAllOrders(e, symbol, f).ex, symbol,
                               leverage, f)} |->
      IF sl.err THEN [ex |-> sl.ex, err |-> TRUE, orderId |-> 0]
      ELSE
      With([mt \in {SetMarginType(sl.ex, symbol, f)} |->
        LET p == FormatPrice(price)
            q == FormatQuantity(quantity)
            id == FreeOrderId(mt.ex)
            ok == /\ f # "order" /\ id # 0
                  /\ ~VenueRefuses(mt.ex, q, p, leverage)
            order == Call("LIMIT", "PlaceLimitOrder", symbol, side, p, q, ok,
                          Held(mt.ex, symbol, side))
            o == [status |-> "NEW", symbol |-> symbol, side |-> side,
                  price |-> p, qty |-> q, executedQty |-> 0, lev |-> leverage]
        IN IF mt.err \/ Notional(q, price) < MinNotional
           THEN [ex |-> mt.ex, err |-> TRUE, orderId |-> 0]
           ELSE IF ~ok
           THEN [ex |-> Log(mt.ex, order), err |-> TRUE, orderId |-> 0]
           ELSE [ex |-> invalidateCache(Log([mt.ex EXCEPT !.lim[id] = o], order)),
                 err |-> FALSE, orderId |-> id]])])

CancelLimitOrder(e, symbol, orderId, f) ==
    LET ok == f # "cancel" /\ e.lim[orderId].status \in Resting
    IN [ex |-> Log(IF ok
                   THEN invalidateCache([e EXCEPT !.lim[orderId].status = "CANCELED"])
                   ELSE e,
                   Call("CANCEL", "CancelLimitOrder", symbol,
                        e.lim[orderId].side, e.lim[orderId].price, orderId, ok,
                        FALSE)),
        err |-> ~ok]

GetOrderStatus(e, symbol, orderId, f) ==
    [ex |-> Log(e, Read("ORDER_STATUS", "GetOrderStatus", symbol, f # "list")),
     err |-> f = "list", status |-> e.lim[orderId].status,
     origQty |-> e.lim[orderId].qty, executedQty |-> e.lim[orderId].executedQty]

\* ------------------------------------------------------ TradingConstraints
\* cooldown: minutes left per symbol; hourly: minutes left in the rolling
\* hour of each recorded open
CanOpenPosition(c, symbol, currentPositionCount) ==
    IF c.cooldown[symbol] > 0 THEN "cooldown"
    ELSE IF Len(c.hourly) >= HourlyCap THEN "hourly"
    ELSE IF currentPositionCount >= MaxPositions THEN "positions"
    ELSE "ok"

RecordOpenPosition(c, symbol, side) ==
    [c EXCEPT !.hourly = Append(@, HourWindow)]

RecordClosePosition(c, symbol, side) ==
    [c EXCEPT !.cooldown[symbol] = CooldownDuration]

\* ------------------------------------------------------------ OrderManager
NoOrder == [orderID |-> 0, side |-> NIL, price |-> 0, quantity |-> 0,
            leverage |-> 0, stopLoss |-> 0, takeProfit |-> 0,
            aiDirection |-> NIL]

\* Save: the map is marshalled to a temporary file that is renamed over the
\* active-orders file; a write or rename that fails leaves the file as it was
Save(e, om, f) ==
    IF f = "disk"
    THEN Log(e, Call("SAVE", "Save", NIL, NIL, 0, 0, FALSE, FALSE))
    ELSE Log([e EXCEPT !.file = om],
             Call("SAVE", "Save", NIL, NIL, 0, 0, TRUE, FALSE))

\* an order is added without the map being written to the file
AddOrderInMemory(e, om, symbol, order, f) ==
    [ex |-> e, om |-> [om EXCEPT ![symbol] = order]]

\* AddOrder: the map is changed, then saved; a failed save is only logged
AddOrder(e, om, symbol, order, f) ==
    [ex |-> Save(e, [om EXCEPT ![symbol] = order], f),
     om |-> [om EXCEPT ![symbol] = order]]

\* RemoveOrder: saves whether or not the symbol had an order
RemoveOrder(e, om, symbol, f) ==
    [ex |-> Save(e, [om EXCEPT ![symbol] = NoOrder], f),
     om |-> [om EXCEPT ![symbol] = NoOrder]]

\* replace when the AI direction flipped or the price moved more than 1%
ShouldUpdatePrice(om, symbol, newPrice, aiDirection) ==
    /\ om[symbol].orderID # 0
    /\ \/ om[symbol].aiDirection # aiDirection
       \/ Abs(newPrice - om[symbol].price) * 100 > om[symbol].price

\* -------------------------------------------------------------- AutoTrader
SideOf(d) == IF d.action \in {"open_long", "close_long"} THEN "long" ELSE "short"

TotalMarginUsed(positions) ==
    LET M[i \in 0..Len(positions)] ==
          IF i = 0 THEN 0
          ELSE M[i - 1] +
               (IF positions[i].leverage > 0 /\ positions[i].markPrice > 0
                THEN Notional(positions[i].positionAmt, positions[i].markPrice)
                       \div positions[i].leverage
                ELSE 0)
    IN M[Len(positions)]

\* the two margin guards of the open paths; "totalEquity" is the wallet
MarginRejected(positions, balance, d) ==
    LET requiredMargin == d.positionSizeUSD \div d.leverage
        totalEquity == balance.totalWalletBalance
        over == /\ totalEquity > 0
                /\ (TotalMarginUsed(positions) + requiredMargin) * 100
                     > MarginLimitPct * totalEquity
    IN over \/ requiredMargin > balance.availableBalance

Outcome(e, c, om, err) ==
    [ex |-> e, constraints |-> c, orderManager |-> om, err |-> err, pnl |-> 0]

\* executeOpenLongWithRecord / executeOpenShortWithRecord
executeOpenWithRecord(e, c, om, d, f) ==
    With([gp \in {GetPositions(e, f)} |->
      IF gp.err THEN Outcome(gp.ex, c, om, TRUE)
      ELSE IF CanOpenPosition(c, d.symbol, Len(gp.res)) # "ok"
              \/ FindPos(gp.res, d.symbol, SideOf(d)) # 0
      THEN Outcome(gp.ex, c, om, TRUE)
      ELSE
      With([gb \in {GetBalance(gp.ex, f)} |->
        IF gb.err \/ MarginRejected(gp.res, gb.res, d)
        THEN Outcome(gb.ex, c, om, TRUE)
        ELSE
        With([op \in {OpenPosition(gb.ex, d.symbol, SideOf(d),
                          QtyFor(d.positionSizeUSD, gb.ex.mark[d.symbol]),
                          d.leverage, f)} |->
          IF op.err THEN Outcome(op.ex, c, om, TRUE)
          ELSE Outcome(
                 SetTakeProfit(
                   SetStopLoss(op.ex, d.symbol, SideOf(d),
                               QtyFor(d.positionSizeUSD, gb.ex.mark[d.symbol]),
                               d.stopLoss, f).ex,
                   d.symbol, SideOf(d),
                   QtyFor(d.positionSizeUSD, gb.ex.mark[d.symbol]),
                   d.takeProfit, f).ex,
                 RecordOpenPosition(c, d.symbol, SideOf(d)), om, FALSE)])])])

\* a close that is not recorded with the trading constraints
executeCloseUnrecorded(e, c, om, d, f) ==
    With([cp \in {ClosePosition(e, d.symbol, SideOf(d), f)} |->
      Outcome(cp.ex, c, om, cp.err)])

\* executeCloseLongWithRecord / executeCloseShortWithRecord
executeCloseWithRecord(e, c, om, d, f) ==
    With([cp \in {ClosePosition(e, d.symbol, SideOf(d), f)} |->
      IF cp.err THEN Outcome(cp.ex, c, om, TRUE)
      ELSE [Outcome(cp.ex, RecordClosePosition(c, d.symbol, SideOf(d)), om,
                    FALSE) EXCEPT !.pnl = cp.pnl]])

\* InvalidatePositionsCache: drop the cached position list
InvalidatePositionsCache(e) == [e EXCEPT !.cachedPositions = <<>>]

OtherSymbolSameSide(positions, symbol, side) ==
    \E i \in 1..Len(positions) :
        positions[i].symbol # symbol /\ positions[i].side = side

\* a replace that gives up when the cancel of the old order fails
executeOpenLimitOrderCancelOrQuit(e, c, om, d, f) ==
    With([gp \in {GetPositions(InvalidatePositionsCache(e), f)} |->
      IF gp.err THEN Outcome(gp.ex, c, om, TRUE)
      ELSE IF \/ CanOpenPosition(c, d.symbol, Len(gp.res)) # "ok"
              \/ OtherSymbolSameSide(gp.res, d.symbol, SideOf(d))
              \/ FindPos(gp.res, d.symbol, SideOf(d)) # 0
      THEN Outcome(gp.ex, c, om, TRUE)
      ELSE
      With([gb \in {GetBalance(gp.ex, f)} |->
        LET side == SideOf(d)
            aiDirection == IF d.action = "open_long" THEN "up" ELSE "down"
            hasOrder == om[d.symbol].orderID # 0
            quantity == QtyFor(d.positionSizeUSD, d.limitPrice)
        IN IF gb.err \/ MarginRejected(gp.res, gb.res, d)
           THEN Outcome(gb.ex, c, om, TRUE)
           ELSE IF hasOrder /\ ~ShouldUpdatePrice(om, d.symbol, d.limitPrice,
                                                  aiDirection)
           THEN Outcome(gb.ex, c, om, FALSE)
           ELSE
           With([cl \in {IF hasOrder
                         THEN CancelLimitOrder(gb.ex, d.symbol,
                                               om[d.symbol].orderID, f)
                         ELSE [ex |-> gb.ex, err |-> FALSE]} |->
           IF cl.err THEN Outcome(cl.ex, c, om, TRUE)
           ELSE
           With([rm \in {IF hasOrder
                         THEN RemoveOrder(cl.ex, om, d.symbol, f)
                         ELSE [ex |-> gb.ex, om |-> om]} |->
           With([pl \in {PlaceLimitOrder(rm.ex, d.symbol, side, d.limitPrice,
                                         quantity, d.leverage, f)} |->
             IF pl.err THEN Outcome(pl.ex, c, rm.om, TRUE)
             ELSE
             With([ad \in {AddOrder(pl.ex, rm.om, d.symbol,
                                    [orderID |-> pl.orderId, side |-> side,
                                     price |-> d.limitPrice,
                                     quantity |-> quantity,
                                     leverage |-> d.leverage,
                                     stopLoss |-> d.stopLoss,
                                     takeProfit |-> d.takeProfit,
                                     aiDirection |-> aiDirection], f)} |->
               Outcome(ad.ex, c, ad.om, FALSE)])])])])])])

\* executeOpenLimitOrderWithRecord
executeOpenLimitOrderWithRecord(e, c, om, d, f) ==
    With([gp \in {GetPositions(InvalidatePositionsCache(e), f)} |->
      IF gp.err THEN Outcome(gp.ex, c, om, TRUE)
      ELSE IF \/ CanOpenPosition(c, d.symbol, Len(gp.res)) # "ok"
              \/ OtherSymbolSameSide(gp.res, d.symbol, SideOf(d))
              \/ FindPos(gp.res, d.symbol, SideOf(d)) # 0
      THEN Outcome(gp.ex, c, om, TRUE)
      ELSE
      With([gb \in {GetBalance(gp.ex, f)} |->
        LET side == SideOf(d)
            aiDirection == IF d.action = "open_long" THEN "up" ELSE "down"
            hasOrder == om[d.symbol].orderID # 0
            quantity == QtyFor(d.positionSizeUSD, d.limitPrice)
        IN IF gb.err \/ MarginRejected(gp.res, gb.res, d)
           THEN Outcome(gb.ex, c, om, TRUE)
           ELSE IF hasOrder /\ ~ShouldUpdatePrice(om, d.symbol, d.limitPrice,
                                                  aiDirection)
           THEN Outcome(gb.ex, c, om, FALSE)
           ELSE
           With([rm \in {IF hasOrder
                         THEN RemoveOrder(
                                CancelLimitOrder(gb.ex, d.symbol,
                                                 om[d.symbol].orderID, f).ex,
                                om, d.symbol, f)
                         ELSE [ex |-> gb.ex, om |-> om]} |->
           With([pl \in {PlaceLimitOrder(rm.ex, d.symbol, side, d.limitPrice,
                                         quantity, d.leverage, f)} |->
             IF pl.err THEN Outcome(pl.ex, c, rm.om, TRUE)
             ELSE
             With([ad \in {AddOrder(pl.ex, rm.om, d.symbol,
                                    [orderID |-> pl.orderId, side |-> side,
                                     price |-> d.limitPrice,
                                     quantity |-> quantity,
                                     leverage |-> d.leverage,
                                     stopLoss |-> d.stopLoss,
                                     takeProfit |-> d.takeProfit,
                                     aiDirection |-> aiDirection], f)} |->
               Outcome(ad.ex, c, ad.om, FALSE)])])])])])

NoCall == Call(NIL, NIL, NIL, NIL, 0, 0, FALSE, FALSE)

\* the last call of a kind that a function made for a symbol in this step
LastCall(e, op, by, symbol) ==
    LET hit == {i \in 1..Len(e.calls) :
                  /\ e.calls[i].op = op /\ e.calls[i].by = by
                  /\ e.calls[i].symbol = symbol}
    IN IF hit = {} THEN NoCall
       ELSE e.calls[CHOOSE i \in hit : \A j \in hit : j <= i]

Rests(e, symbol, side, type, price) ==
    \E i \in 1..Len(e.orders) :
        e.orders[i] = StopOrder(symbol, side, type, price, e.orders[i].qty)

\* what one pass of the reconciliation saw of a symbol's order and what it
\* had done when it went on to the next order
NoSeen == [status |-> "NONE", orderID |-> 0, side |-> NIL, origQty |-> 0,
           executedQty |-> 0, stopLoss |-> 0, takeProfit |-> 0,
           guard |-> FALSE, recorded |-> FALSE, removed |-> FALSE,
           sl |-> NoCall, tp |-> NoCall, slRests |-> FALSE, tpRests |-> FALSE,
           conflict |-> FALSE]

Saw(st, symbol, info, after) ==
    LET order == st.orderManager[symbol]
        sl == LastCall(after.ex, "STOP_MARKET", "SetStopLoss", symbol)
        tp == LastCall(after.ex, "TAKE_PROFIT_MARKET", "SetTakeProfit", symbol)
    IN [status |-> info.status, orderID |-> order.orderID, side |-> order.side,
        origQty |-> info.origQty, executedQty |-> info.executedQty,
        stopLoss |-> order.stopLoss, takeProfit |-> order.takeProfit,
        guard |-> symbol \in after.guarded,
        recorded |-> Len(after.constraints.hourly)
                       = Len(st.constraints.hourly) + 1,
        removed |-> after.orderManager[symbol] = NoOrder,
        sl |-> sl, tp |-> tp,
        slRests |-> Rests(after.ex, symbol, order.side, sl.op, sl.price),
        tpRests |-> Rests(after.ex, symbol, order.side, tp.op, tp.price),
        conflict |-> /\ Held(after.ex, symbol, order.side)
                     /\ \E s \in Symbols \ {symbol} :
                            Held(after.ex, s, order.side)]

\* the order's record is dropped at the end of a branch of the loop
Forget(st, symbol, e, f) ==
    With([rm \in {RemoveOrder(e, st.orderManager, symbol, f)} |->
      [st EXCEPT !.ex = rm.ex, !.orderManager = rm.om]])

\* a fill that is handled without its take-profit order
HandleFillNoTakeProfit(st, symbol, e0, f) ==
    With([gp \in {GetPositions(e0, f)} |->
      LET order == st.orderManager[symbol]
      IN IF ~gp.err /\ OtherSymbolSameSide(gp.res, symbol, order.side)
         THEN Forget([st EXCEPT !.guarded = @ \cup {symbol}], symbol,
                     ClosePosition(gp.ex, symbol, order.side, f).ex, f)
         ELSE Forget([st EXCEPT !.constraints =
                                   RecordOpenPosition(@, symbol, order.side)],
                     symbol,
                     SetStopLoss(gp.ex, symbol, order.side, order.quantity,
                                 order.stopLoss, f).ex,
                     f)])

\* the FILLED branch, and the PARTIALLY_FILLED branch after its cancel
HandleFill(st, symbol, e0, f) ==
    With([gp \in {GetPositions(e0, f)} |->
      LET order == st.orderManager[symbol]
      IN IF ~gp.err /\ OtherSymbolSameSide(gp.res, symbol, order.side)
         THEN Forget([st EXCEPT !.guarded = @ \cup {symbol}], symbol,
                     ClosePosition(gp.ex, symbol, order.side, f).ex, f)
         ELSE Forget([st EXCEPT !.constraints =
                                   RecordOpenPosition(@, symbol, order.side)],
                     symbol,
                     SetTakeProfit(
                       SetStopLoss(gp.ex, symbol, order.side, order.quantity,
                                   order.stopLoss, f).ex,
                       symbol, order.side, order.quantity, order.takeProfit,
                       f).ex,
                     f)])

\* one iteration of the loop of checkAndUpdateLimitOrders, after its
\* GetOrderStatus has answered info
ReconcileOrder(st, symbol, info, f) ==
    IF info.err THEN [st EXCEPT !.ex = info.ex]
    ELSE IF info.status \in {"FILLED", "PARTIALLY_FILLED"}
    THEN HandleFill([st EXCEPT !.ex = info.ex], symbol,
                    IF info.status = "FILLED" THEN info.ex
                    ELSE CancelLimitOrder(info.ex, symbol,
                                          st.orderManager[symbol].orderID,
                                          f).ex,
                    f)
    ELSE IF info.status \in {"CANCELED", "EXPIRED"}
    THEN Forget(st, symbol, info.ex, f)
    ELSE [st EXCEPT !.ex = info.ex]

\* the record of what an iteration saw and did
Seen(st, symbol, info, after) ==
    IF info.err THEN after
    ELSE [after EXCEPT !.seen[symbol] = Saw(st, symbol, info, after)]

\* the iteration and its record
ReconcileOne(st, symbol, f) ==
    With([info \in {GetOrderStatus(st.ex, symbol,
                                   st.orderManager[symbol].orderID, f)} |->
      Seen(st, symbol, info, ReconcileOrder(st, symbol, info, f))])

\* checkAndUpdateLimitOrders, from the i-th of the active orders on
RECURSIVE checkAndUpdateLimitOrders(_, _, _, _)
checkAndUpdateLimitOrders(st, activeOrders, i, f) ==
    IF i \notin DOMAIN activeOrders THEN st
    ELSE checkAndUpdateLimitOrders(ReconcileOne(st, activeOrders[i], f),
                                   activeOrders, i + 1, f)

\* convertAgentDecisions: the fields of an agents.Decision that the
\* decision.Decision handed to the trader keeps
convertAgentDecisions(ad) ==
    [symbol |-> ad.symbol, action |-> ad.action, leverage |-> ad.leverage,
     positionSizeUSD |-> ad.positionSizeUSD, stopLoss |-> ad.stopLoss,
     takeProfit |-> ad.takeProfit]

\* executeDecisionWithRecord: a switch on the action
executeDecisionWithRecord(e, c, om, d, f) ==
    IF d.action \in {"close_long", "close_short"}
    THEN executeCloseWithRecord(e, c, om, d, f)
    ELSE IF d.action \in {"open_long", "open_short"}
    THEN executeOpenWithRecord(e, c, om, d, f)
    ELSE Outcome(e, c, om, d.action \notin {"hold", "wait"})

\* step 9 of the tick with limit orders: an open that the orchestrator
\* marked as a limit order goes to executeOpenLimitOrderWithRecord
executeDecision(e, c, om, d, f) ==
    IF d.action \in {"open_long", "open_short"} /\ d.isLimitOrder
    THEN executeOpenLimitOrderWithRecord(e, c, om, d, f)
    ELSE executeDecisionWithRecord(e, c, om, d, f)

\* the way of a decision from the orchestrator to the trader: converted
\* and switched on its action, or executed with its limit fields
Dispatch(converted, e, c, om, d, f) ==
    IF converted
    THEN executeDecisionWithRecord(e, c, om, convertAgentDecisions(d), f)
    ELSE executeDecision(e, c, om, d, f)

\* ------------------------------------------------------------ orchestrator
HeldSymbols(positions) == {positions[i].symbol : i \in 1..Len(positions)}

Decision(action, symbol, size, leverage, isLimit, price) ==
    [action |-> action, symbol |-> symbol, positionSizeUSD |-> size,
     leverage |-> leverage, isLimitOrder |-> isLimit,
     limitPrice |-> IF action = "open_long" THEN (price * 99) \div 100
                    ELSE (price * 101) \div 100,
     stopLoss |-> IF action = "open_long" THEN (price * 85) \div 100
                  ELSE (price * 115) \div 100,
     takeProfit |-> IF action = "open_long" THEN (price * 120) \div 100
                    ELSE (price * 80) \div 100]

\* EntryTimingEngine.Decide: enter at once or wait for a pullback
EntryStrategies == {"immediate", "wait_pullback"}

Rank(sym) == CHOOSE i \in 1..Len(SymbolSeq) : SymbolSeq[i] = sym

\* Stage 4 of GetFullDecisionPredictive: the candidates are walked in ranking
\* order; one that is not held is opened while slots remain, sized within
\* 60% of equity and 90% of the remaining balance; it is a limit order when
\* the configuration asks for limit orders or the entry timing is to wait
\* for a pullback
OpenDecisions(e, c, d) ==
    {x \in {Decision(a, sym, z, l,
                     at.useLimitOrders \/ strategy = "wait_pullback",
                     e.mark[sym]) :
              a \in {"open_long", "open_short"},
              sym \in Symbols \ (HeldSymbols(c.positions) \cup d.opened),
              z \in PositionSizes, l \in Leverages,
              strategy \in EntryStrategies} :
        /\ \A o \in d.opened : Rank(o) < Rank(x.symbol)
        /\ Cardinality(d.opened) < MaxPositions - Len(c.positions)
        /\ x.positionSizeUSD * 10 <= 6 * c.totalEquity
        /\ (x.positionSizeUSD \div x.leverage) * 10 <= 9 * d.remainingBalance
        /\ x.isLimitOrder => FreeOrderId(e) # 0}

\* Stage 1: a close for a held position of the context
CloseDecisions(c, d) ==
    {Decision(IF c.positions[i].side = "long" THEN "close_long"
              ELSE "close_short",
              c.positions[i].symbol, 0, 0, FALSE, 0) :
       i \in {j \in 1..Len(c.positions) :
                /\ d.stage = "close"
                /\ <<c.positions[j].symbol, c.positions[j].side>> \notin d.closed}}

\* sortDecisionsByPriority: closes are executed before opens
Decisions(e, c, d) == CloseDecisions(c, d) \cup OpenDecisions(e, c, d)

\* ------------------------------------------------------------ observations
NoCalls(e) == [e EXCEPT !.calls = <<>>]

Protected(e, k) ==
    \E i \in 1..Len(e.orders) :
        /\ e.orders[i].symbol = k[1] /\ e.orders[i].side = k[2]
        /\ e.orders[i].type = "STOP_MARKET"

\* positions for which this step submitted a stop, and those it failed for
StopAttempts(e) ==
    {k \in PosKeys : \E i \in 1..Len(e.calls) :
        /\ e.calls[i].op = "STOP_MARKET"
        /\ e.calls[i].symbol = k[1] /\ e.calls[i].side = k[2]}

StopFailures(e) ==
    {k \in PosKeys : \E i \in 1..Len(e.calls) :
        /\ e.calls[i].op = "STOP_MARKET" /\ ~e.calls[i].ok
        /\ e.calls[i].symbol = k[1] /\ e.calls[i].side = k[2]}

\* margin the venue holds for positions and resting orders, leaving out the
\* resting orders of one symbol
MarginInUse(e, symbol) ==
    VenuePositionMargin(e)
      + VenueOrderMargin([e EXCEPT !.lim = [i \in DOMAIN e.lim |->
              IF e.lim[i].symbol = symbol THEN NoLimit ELSE e.lim[i]]])

Equity(e) == e.wallet + TotalUnrealized(e)

\* the failures a step may meet: none, or one of Faults while the run's
\* budget of failures lasts
MayFail(calls) ==
    IF obs.faults < MaxFaults
    THEN {"none"} \cup {FaultOf(calls[i].op) : i \in 1..Len(calls)}
    ELSE {"none"}

\* the last two stop prices that the trailing stop set for a position
NoTrail == [prev |-> 0, cur |-> 0]

Trailed(t, e, k) ==
    LET c == LastCall(e, "STOP_MARKET", "updateStopLoss", k[1])
    IN IF e.pos[k].qty = 0 THEN NoTrail
       ELSE IF c.side = k[2] /\ c.ok THEN [prev |-> t.cur, cur |-> c.price]
       ELSE t

\* the symbols for whose limit order this step asked the venue's status
StatusQueries(e) ==
    {e.calls[i].symbol : i \in {j \in 1..Len(e.calls) :
                                  e.calls[j].op = "ORDER_STATUS"}}

\* bookkeeping common to every step of the trader
Track(o, e, f) ==
    [o EXCEPT
       !.trail = [k \in PosKeys |-> Trailed(@[k], e, k)],
       !.faults = IF f = "none" THEN @ ELSE @ + 1,
       !.slFailed = {k \in (@ \cup StopFailures(e)) :
                       e.pos[k].qty > 0 /\ ~Protected(e, k)},
       !.attempted = @ \cup StopAttempts(e),
       !.polled = @ \cup StatusQueries(e),
       !.unsaved = IF LastCall(e, "SAVE", "Save", NIL) = NoCall THEN @
                   ELSE ~LastCall(e, "SAVE", "Save", NIL).ok]

\* ------------------------------------------------------------------- init
\* NewAutoTrader: the configuration, the initial balance, no stop, no
\* profit or loss of the day
InitAt(maxDailyLoss, maxDrawdown, useLimitOrders) ==
    [maxDailyLoss |-> maxDailyLoss, maxDrawdown |-> maxDrawdown,
     useLimitOrders |-> useLimitOrders, initialBalance |-> InitialWallet,
     dailyPnL |-> 0, stopUntil |-> 0]

InitOrders(held) ==
    LET R[i \in 0..Len(PosKeySeq)] ==
          IF i = 0 THEN <<>>
          ELSE LET k == PosKeySeq[i]
               IN IF k \notin held THEN R[i - 1]
                  ELSE R[i - 1] \o
                       <<StopOrder(k[1], k[2], "STOP_MARKET",
                                   IF k[2] = "long" THEN 8500 ELSE 11500, 15000),
                         StopOrder(k[1], k[2], "TAKE_PROFIT_MARKET",
                                   IF k[2] = "long" THEN 12000 ELSE 8000, 15000)>>
    IN R[Len(PosKeySeq)]

\* the venue and a fresh adapter; the positions held were opened at 1000 USDT
\* with their protective orders
InitEx(held) ==
    [pos |-> [k \in PosKeys |->
                IF k \in held THEN [qty |-> 15000, entry |-> 10000, lev |-> 1]
                ELSE NoPos],
     mark |-> [sym \in Symbols |-> 10000],
     orders |-> InitOrders(held),
     lim |-> [i \in 1..MaxOrders |-> NoLimit],
     wallet |-> InitialWallet,
     file |-> [sym \in Symbols |-> NoOrder],
     cachedBalance |-> NoBalance,
     cachedPositions |-> <<>>,
     lastCloseTimes |-> [sym \in Symbols |-> 0],
     calls |-> <<>>]

NoCtx == [positions |-> <<>>, totalEquity |-> 0, availableBalance |-> 0]
NoDec == [closed |-> {}, opened |-> {}, stage |-> "close", remainingBalance |-> 0]
\* the decision executed last: replaced is the id of the limit order that the
\* OrderManager tracked for its symbol when a limit decision began, 0 if none
NoLast == [action |-> NIL, symbol |-> NIL, isLimitOrder |-> FALSE,
           replaced |-> 0, err |-> FALSE]

\* a goroutine inside executeOpenLimitOrderWithRecord: where it is, its
\* decision, the order it found, the order it placed, the bytes it
\* marshalled in Save and where it goes on after the Save
Goroutines == {1, 2}
EmptyMap == [sym \in Symbols |-> NoOrder]
NoGo == [pc |-> "idle", d |-> Decision("open_long", "BTCUSDT", 0, 0, FALSE, 0),
         old |-> 0, new |-> NoOrder, data |-> EmptyMap, next |-> "done",
         replaced |-> FALSE]

\* tmp is the file active_orders.json.tmp that every Save writes and renames
NoRun == [tmp |-> [present |-> FALSE, data |-> EmptyMap],
          g |-> [p \in Goroutines |-> NoGo]]

\* what the startup recovery found: the venue's trigger orders and the
\* records loaded from the file
NoBoot == [done |-> FALSE, orders |-> <<>>,
           orderMap |-> [sym \in Symbols |-> NoOrder]]

InitObs ==
    [closedLeft |-> [sym \in Symbols |-> 0],
     recon |-> [sym \in Symbols |-> NoSeen],
     faults |-> 0, decisions |-> 0, over90 |-> FALSE, slFailed |-> {}, owed |-> {}, attempted |-> {},
     missed |-> {}, last |-> NoLast, tracked |-> {}, polled |-> {},
     unsaved |-> FALSE, cut |-> "none", boot |-> NoBoot,
     trail |-> [k \in PosKeys |-> NoTrail]]

Init ==
    /\ ex = InitEx({<<"BTCUSDT", "long">>})
    /\ constraints = [cooldown |-> [sym \in Symbols |-> 0], hourly |-> <<>>]
    /\ orderManager = [sym \in Symbols |-> NoOrder]
    /\ run = NoRun
    /\ pc = "idle"
    /\ ctx = NoCtx
    /\ dec = NoDec
    /\ tick = 0
    /\ obs = InitObs
    /\ at = InitAt(0, 0, FALSE)

\* ---------------------------------------------------------------- actions
Elapse(left, d) == IF left > d THEN left - d ELSE 0

\* the ticker sleeps d minutes: the adapter caches expire, the cooldowns and
\* the rolling hour run down
Sleep(e, d) ==
    [invalidateCache(e) EXCEPT
        !.lastCloseTimes = [sym \in Symbols |-> Elapse(@[sym], d)]]

SleepConstraints(c, d) ==
    [cooldown |-> [sym \in Symbols |-> Elapse(c.cooldown[sym], d)],
     hourly |-> LET h == SelectSeq(c.hourly, LAMBDA t : t > d)
                IN [i \in 1..Len(h) |-> h[i] - d]]

SleepObs(o, d) ==
    [o EXCEPT !.closedLeft = [sym \in Symbols |-> Elapse(@[sym], d)]]

SleepAt(a, d) == [a EXCEPT !.stopUntil = Elapse(@, d)]

\* a trader whose circuit breaker never holds a tick back
StopNeverActive(a) == FALSE

\* step 1 of runCycle: time.Now().Before(at.stopUntil)
StopActive(a) == a.stopUntil > 0

\* a risk check that looks at the daily loss only
RiskBreachDailyLossOnly(a, totalEquity) ==
    IF /\ a.maxDailyLoss > 0 /\ a.initialBalance > 0
       /\ a.dailyPnL * 100 < -(a.maxDailyLoss * a.initialBalance)
    THEN "dailyLoss"
    ELSE "none"

\* the risk check of runCycle: the daily loss, then the drawdown, each
\* against its limit when the limit is set
RiskBreach(a, totalEquity) ==
    IF /\ a.maxDailyLoss > 0 /\ a.initialBalance > 0
       /\ a.dailyPnL * 100 < -(a.maxDailyLoss * a.initialBalance)
    THEN "dailyLoss"
    ELSE IF /\ a.maxDrawdown > 0 /\ a.initialBalance > 0
            /\ totalEquity < a.initialBalance
            /\ (a.initialBalance - totalEquity) * 100
                 > a.maxDrawdown * a.initialBalance
    THEN "drawdown"
    ELSE "none"

\* runCycle up to the decisions: callCount++, the circuit breaker,
\* buildTradingContext, the risk check; a tick that is stopped by one of
\* them returns and the ticker sleeps
BuildContext ==
    /\ pc = "idle" /\ tick < MaxTicks
    /\ tick' = tick + 1
    /\ LET none == GetPositions(GetBalance(NoCalls(ex), "none").ex, "none")
           o == [obs EXCEPT !.recon = [sym \in Symbols |-> NoSeen],
                            !.over90 = FALSE, !.owed = obs.slFailed,
                            !.attempted = {}, !.missed = {}, !.last = NoLast,
                            !.tracked = {sym \in Symbols :
                                           orderManager[sym] # NoOrder},
                            !.polled = {}, !.cut = "none"]
       IN \E f \in (IF StopActive(at) THEN {"none"}
                    ELSE MayFail(none.ex.calls)),
             d \in TimeSteps :
            LET gb == GetBalance(NoCalls(ex), f)
                gp == GetPositions(gb.ex, f)
                totalEquity == gb.res.totalWalletBalance
                                 + gb.res.totalUnrealizedProfit
            IN IF StopActive(at)
               THEN /\ pc' = "idle" /\ ctx' = NoCtx
                    /\ ex' = Sleep(NoCalls(ex), d)
                    /\ constraints' = SleepConstraints(constraints, d)
                    /\ obs' = SleepObs([o EXCEPT !.cut = "breaker"], d)
                    /\ at' = SleepAt(at, d)
               ELSE IF gb.err \/ gp.err
               THEN /\ pc' = "idle" /\ ctx' = NoCtx
                    /\ ex' = Sleep(gp.ex, d)
                    /\ constraints' = SleepConstraints(constraints, d)
                    /\ obs' = SleepObs(Track([o EXCEPT !.cut = "context"],
                                             gp.ex, f), d)
                    /\ at' = SleepAt(at, d)
               ELSE IF RiskBreach(at, totalEquity) # "none"
               THEN /\ pc' = "idle" /\ ctx' = NoCtx
                    /\ ex' = Sleep(gp.ex, d)
                    /\ constraints' = SleepConstraints(constraints, d)
                    /\ obs' = SleepObs(
                                Track([o EXCEPT
                                         !.cut = RiskBreach(at, totalEquity)],
                                      gp.ex, f), d)
                    /\ at' = SleepAt([at EXCEPT !.stopUntil = StopTradingTime],
                                     d)
               ELSE /\ pc' = "recon"
                    /\ ctx' = [positions |-> gp.res,
                               totalEquity |-> totalEquity,
                               availableBalance |-> gb.res.availableBalance]
                    /\ ex' = gp.ex
                    /\ constraints' = constraints
                    /\ obs' = Track(o, gp.ex, f)
                    /\ at' = at
    /\ UNCHANGED <<orderManager, dec, run>>

\* the orders of GetAllOrders in the order the map iteration yields them
Orderings(om) ==
    LET active == {sym \in Symbols : om[sym].orderID # 0}
    IN {q \in [1..Cardinality(active) -> active] :
          \A i, j \in DOMAIN q : i # j => q[i] # q[j]}

\* a tick that goes on to its decisions without the reconciliation
ReconcileSkipped ==
    /\ pc = "recon"
    /\ pc' = "decide"
    /\ dec' = [NoDec EXCEPT !.remainingBalance = ctx.availableBalance]
    /\ obs' = Track(obs, NoCalls(ex), "none")
    /\ ex' = NoCalls(ex)
    /\ UNCHANGED <<constraints, orderManager, ctx, tick, at, run>>

\* step 6 of the tick: checkAndUpdateLimitOrders
Reconcile ==
    /\ pc = "recon"
    /\ \E q \in Orderings(orderManager) :
         LET st0 == [ex |-> NoCalls(ex), constraints |-> constraints,
                     orderManager |-> orderManager, guarded |-> {},
                     seen |-> obs.recon]
             none == checkAndUpdateLimitOrders(st0, q, 1, "none")
         IN \E f \in MayFail(none.ex.calls) :
              LET st == checkAndUpdateLimitOrders(st0, q, 1, f)
              IN /\ ex' = st.ex
                 /\ constraints' = st.constraints
                 /\ orderManager' = st.orderManager
                 /\ obs' = Track([obs EXCEPT !.recon = st.seen], st.ex, f)
    /\ pc' = "decide"
    /\ dec' = [NoDec EXCEPT !.remainingBalance = ctx.availableBalance]
    /\ UNCHANGED <<ctx, tick, at, run>>

\* the decision loop of runCycle: the next decision of the sorted list is
\* executed
Execute(converted) ==
    /\ pc = "decide" /\ obs.decisions < MaxDecisions
    /\ \E d \in Decisions(ex, ctx, dec) :
         LET isOpen == d.action \in {"open_long", "open_short"}
             required == d.positionSizeUSD \div d.leverage
             none == Dispatch(converted, NoCalls(ex), constraints,
                             orderManager, d, "none")
         IN \E f \in MayFail(none.ex.calls) :
              LET r == Dispatch(converted, NoCalls(ex), constraints,
                                orderManager, d, f)
                  submitted == \E i \in 1..Len(r.ex.calls) :
                                  /\ r.ex.calls[i].op \in {"MARKET_OPEN", "LIMIT"}
                                  /\ r.ex.calls[i].ok
                  over == /\ isOpen /\ submitted
                          /\ (MarginInUse(ex, d.symbol) + required) * 100
                               > MarginLimitPct * Equity(ex)
                  o == [obs EXCEPT
                          !.closedLeft[d.symbol] =
                              IF LastCall(r.ex, "MARKET_CLOSE", "Close",
                                          d.symbol).ok
                              THEN CooldownDuration ELSE @,
                          !.over90 = @ \/ over,
                          !.decisions = @ + 1,
                          !.last = [action |-> d.action, symbol |-> d.symbol,
                                    isLimitOrder |-> d.isLimitOrder,
                                    replaced |->
                                        IF isOpen /\ d.isLimitOrder
                                        THEN orderManager[d.symbol].orderID
                                        ELSE 0,
                                    err |-> r.err]]
              IN /\ ex' = r.ex
                 /\ constraints' = r.constraints
                 /\ orderManager' = r.orderManager
                 /\ obs' = Track(o, r.ex, f)
                 /\ at' = [at EXCEPT !.dailyPnL = @ + r.pnl]
                 /\ dec' = IF isOpen
                           THEN [dec EXCEPT
                                   !.stage = "open",
                                   !.opened = @ \cup {d.symbol},
                                   !.remainingBalance = @ - required]
                           ELSE [dec EXCEPT
                                   !.closed = @ \cup {<<d.symbol, SideOf(d)>>}]
    /\ UNCHANGED <<pc, ctx, tick, run>>

\* step 9 of the tick: decisions are executed with their limit fields
ExecuteDecision == Execute(FALSE)

\* the decision loop on the decisions that convertAgentDecisions returns
ExecuteConverted == Execute(TRUE)

\* the decision loop is over: the record is logged, the cycle returns and
\* the ticker sleeps
EndCycle ==
    /\ pc = "decide"
    /\ pc' = "idle"
    /\ \E d \in TimeSteps :
         /\ ex' = Sleep(NoCalls(ex), d)
         /\ constraints' = SleepConstraints(constraints, d)
         /\ obs' = SleepObs(
                     [obs EXCEPT !.last = NoLast, !.attempted = {}, !.owed = {},
                                 !.tracked = {}, !.polled = {},
                                 !.missed = {k \in obs.owed :
                                     ex.pos[k].qty > 0 /\ k \notin obs.attempted}],
                     d)
         /\ at' = SleepAt(at, d)
    /\ ctx' = NoCtx
    /\ dec' = NoDec
    /\ UNCHANGED <<orderManager, tick, run>>

\* the venue fills a resting limit order, wholly or in part
FillLimit(id, whole) ==
    /\ tick < MaxTicks \/ pc # "idle"
    /\ ex.lim[id].status \in Resting
    /\ whole \/ ex.lim[id].status = "NEW"
    /\ LET o == ex.lim[id]
           target == IF whole THEN o.qty ELSE FormatQuantity((o.qty * 2) \div 5)
           e1 == VenueFill(NoCalls(ex), o.symbol, o.side,
                           target - o.executedQty, o.price, o.lev)
       IN ex' = [e1 EXCEPT !.lim[id].executedQty = target,
                           !.lim[id].status = IF whole THEN "FILLED"
                                              ELSE "PARTIALLY_FILLED"]
    /\ UNCHANGED <<constraints, orderManager, pc, ctx, dec, tick, obs, at, run>>

Next ==
    \/ BuildContext
    \/ Reconcile
    \/ ExecuteDecision
    \/ EndCycle
    \/ \E id \in 1..MaxOrders, whole \in BOOLEAN : FillLimit(id, whole)

Spec == Init /\ [][Next]_vars

\* --------------------------------------------------- the market in motion
\* the venue executes the close-position orders whose trigger the mark has
\* crossed: the position is closed at the mark and the order is done
RECURSIVE VenueTrigger(_, _)
VenueTrigger(e, i) ==
    IF i > Len(e.orders) THEN e
    ELSE LET o == e.orders[i]
             closed == VenueReduce(e, o.symbol, o.side,
                                   e.pos[<<o.symbol, o.side>>].qty)
         IN IF WouldTrigger(e, o.symbol, o.side, o.type, o.stopPrice)
            THEN VenueTrigger(
                   [closed EXCEPT !.orders = SubSeq(@, 1, i - 1)
                                               \o SubSeq(@, i + 1, Len(@))], i)
            ELSE VenueTrigger(e, i + 1)

\* the mark price of a symbol moves
PriceMove(sym, p) ==
    /\ tick < MaxTicks \/ pc # "idle"
    /\ p # ex.mark[sym]
    /\ \E side \in Sides : Held(ex, sym, side)
    /\ ex' = VenueTrigger([NoCalls(ex) EXCEPT !.mark[sym] = p], 1)
    /\ obs' = [obs EXCEPT !.trail = [k \in PosKeys |-> Trailed(@[k], ex', k)]]
    /\ UNCHANGED <<constraints, orderManager, pc, ctx, dec, tick, at, run>>

\* a long and a short are held and the orchestrator holds them: every tick
\* the decision list is empty
InitTrail ==
    /\ ex = InitEx({<<"BTCUSDT", "long">>, <<"ETHUSDT", "short">>})
    /\ constraints = [cooldown |-> [sym \in Symbols |-> 0], hourly |-> <<>>]
    /\ orderManager = [sym \in Symbols |-> NoOrder]
    /\ run = NoRun
    /\ pc = "idle"
    /\ ctx = NoCtx
    /\ dec = NoDec
    /\ tick = 0
    /\ obs = InitObs
    /\ at = InitAt(0, 0, FALSE)

NextTrail ==
    \/ \E sym \in Symbols, p \in PriceLevels : PriceMove(sym, p)
    \/ BuildContext
    \/ Reconcile
    \/ EndCycle

SpecTrail == InitTrail /\ [][NextTrail]_vars

\* ------------------------------------------------- the risk controls
\* limits of the configuration in percent; 0 leaves a limit unset
DailyLossLimits == {0, 5}
DrawdownLimits == {0, 5}

\* a long is held, the limits are configured, and no call fails
InitRisk ==
    /\ ex = InitEx({<<"BTCUSDT", "long">>})
    /\ constraints = [cooldown |-> [sym \in Symbols |-> 0], hourly |-> <<>>]
    /\ orderManager = [sym \in Symbols |-> NoOrder]
    /\ run = NoRun
    /\ pc = "idle"
    /\ ctx = NoCtx
    /\ dec = NoDec
    /\ tick = 0
    /\ obs = [InitObs EXCEPT !.faults = MaxFaults]
    /\ \E dl \in DailyLossLimits, dd \in DrawdownLimits :
          at = InitAt(dl, dd, FALSE)

\* the price of the position held at the start falls by 10% and recovers
NextRisk ==
    \/ \E p \in {9000, 10000} : PriceMove("BTCUSDT", p)
    \/ BuildContext
    \/ Reconcile
    \/ ExecuteDecision
    \/ EndCycle

SpecRisk == InitRisk /\ [][NextRisk]_vars

\* ------------------------------------------- the orchestrator's opens
\* the trader is configured with or without useLimitOrders and executes the
\* decisions as GetFullDecision returns them
InitOpen ==
    /\ ex = InitEx({<<"BTCUSDT", "long">>})
    /\ constraints = [cooldown |-> [sym \in Symbols |-> 0], hourly |-> <<>>]
    /\ orderManager = [sym \in Symbols |-> NoOrder]
    /\ run = NoRun
    /\ pc = "idle"
    /\ ctx = NoCtx
    /\ dec = NoDec
    /\ tick = 0
    /\ obs = InitObs
    /\ \E u \in BOOLEAN : at = InitAt(0, 0, u)

NextOpen ==
    \/ BuildContext
    \/ Reconcile
    \/ ExecuteConverted
    \/ EndCycle

SpecOpen == InitOpen /\ [][NextOpen]_vars

\* ------------------------------------------------- the startup recovery
\* checkHasStopLoss: the symbol's open orders are listed; any STOP_MARKET or
\* TAKE_PROFIT_MARKET among them counts
checkHasStopLoss(e, symbol, side, f) ==
    [ex |-> Log(e, Read("OPEN_ORDERS", "checkHasStopLoss", symbol, f # "list")),
     err |-> f = "list",
     has |-> /\ f # "list"
             /\ \E i \in 1..Len(e.orders) :
                   /\ e.orders[i].symbol = symbol
                   /\ e.orders[i].type \in {"STOP_MARKET", "TAKE_PROFIT_MARKET"}]

\* the body of the loop of RecoverMissingStopLoss for one position; orderMap
\* is the copy of the records taken before the loop
RecoverPosition(st, orderMap, pos, f) ==
    IF orderMap[pos.symbol] = NoOrder THEN st
    ELSE
    With([chk \in {checkHasStopLoss(st.ex, pos.symbol, pos.side, f)} |->
      IF chk.err \/ chk.has THEN [st EXCEPT !.ex = chk.ex]
      ELSE
      With([sl \in {SetStopLoss(chk.ex, pos.symbol, pos.side,
                                Abs(pos.positionAmt),
                                orderMap[pos.symbol].stopLoss, f)} |->
        IF sl.err THEN [st EXCEPT !.ex = sl.ex]
        ELSE
        With([rm \in {RemoveOrder(
                        SetTakeProfit(sl.ex, pos.symbol, pos.side,
                                      Abs(pos.positionAmt),
                                      orderMap[pos.symbol].takeProfit, f).ex,
                        st.om, pos.symbol, f)} |->
          [st EXCEPT !.ex = rm.ex, !.om = rm.om]])])])

RECURSIVE RecoverLoop(_, _, _, _, _)
RecoverLoop(st, orderMap, positions, i, f) ==
    IF i > Len(positions) THEN st
    ELSE RecoverLoop(RecoverPosition(st, orderMap, positions[i], f),
                     orderMap, positions, i + 1, f)

\* RecoverMissingStopLoss
RecoverMissingStopLoss(e, om, f) ==
    With([gp \in {GetPositions(e, f)} |->
      IF gp.err THEN [ex |-> gp.ex, om |-> om]
      ELSE RecoverLoop([ex |-> gp.ex, om |-> om], om, gp.res, 1, f)])

\* the symbols that have a position or a record when the trader starts
StartupSymbols == {"BTCUSDT", "ETHUSDT"}
RecordId(sym) == IF sym = "BTCUSDT" THEN 1 ELSE 2

\* the record of a limit order for 15 units at 1000 USDT
StartupRecord(sym, side) ==
    [orderID |-> RecordId(sym), side |-> side, price |-> 10000,
     quantity |-> 15000, leverage |-> 1,
     stopLoss |-> IF side = "long" THEN 9500 ELSE 10500,
     takeProfit |-> IF side = "long" THEN 11000 ELSE 9000,
     aiDirection |-> IF side = "long" THEN "up" ELSE "down"]

\* the venue's limit order of a record: filled if its position is held,
\* resting if not
StartupLimit(held, om, i) ==
    LET hit == {sym \in Symbols : om[sym] # NoOrder /\ RecordId(sym) = i}
    IN IF hit = {} THEN NoLimit
       ELSE LET sym == CHOOSE x \in hit : TRUE
                filled == <<sym, om[sym].side>> \in held
            IN [status |-> IF filled THEN "FILLED" ELSE "NEW",
                symbol |-> sym, side |-> om[sym].side, price |-> 10000,
                qty |-> 15000,
                executedQty |-> IF filled THEN 15000 ELSE 0, lev |-> 1]

\* the trader starts after a stop at any point: each symbol has no position
\* or one, with both, one or none of its trigger orders at the venue, and
\* the file holds a record for the symbol or none
InitRecover ==
    /\ \E held \in SUBSET (StartupSymbols \X Sides),
          kept \in [StartupSymbols -> SUBSET {"STOP_MARKET",
                                              "TAKE_PROFIT_MARKET"}],
          rec \in [StartupSymbols -> Sides \cup {NIL}] :
          /\ \A sym \in StartupSymbols :
                /\ ~({<<sym, "long">>, <<sym, "short">>} \subseteq held)
                /\ (\A side \in Sides : <<sym, side>> \notin held) =>
                      kept[sym] = {}
          /\ orderManager =
                [sym \in Symbols |->
                   IF sym \in StartupSymbols /\ rec[sym] # NIL
                   THEN StartupRecord(sym, rec[sym]) ELSE NoOrder]
          /\ ex = [InitEx(held) EXCEPT
                     !.orders = SelectSeq(@, LAMBDA o : o.type \in kept[o.symbol]),
                     !.lim = [i \in 1..MaxOrders |->
                                StartupLimit(held, orderManager, i)],
                     !.file = orderManager]
    /\ constraints = [cooldown |-> [sym \in Symbols |-> 0], hourly |-> <<>>]
    /\ run = NoRun
    /\ pc = "start"
    /\ ctx = NoCtx
    /\ dec = NoDec
    /\ tick = 0
    /\ obs = InitObs
    /\ at = InitAt(0, 0, TRUE)

\* startup: the records were loaded from the file, the missing-stop-loss
\* reconciliation runs once before the first tick
Recover ==
    /\ pc = "start"
    /\ \E f \in MayFail(RecoverMissingStopLoss(NoCalls(ex), orderManager,
                                               "none").ex.calls) :
          \E r \in {RecoverMissingStopLoss(NoCalls(ex), orderManager, f)} :
            /\ ex' = r.ex
            /\ orderManager' = r.om
            /\ obs' = [Track(obs, r.ex, f) EXCEPT
                         !.boot = [done |-> TRUE, orders |-> ex.orders,
                                   orderMap |-> orderManager]]
    /\ pc' = "idle"
    /\ UNCHANGED <<constraints, ctx, dec, tick, at, run>>

NextRecover == Recover

SpecRecover == InitRecover /\ [][NextRecover]_vars

\* ------------------------------------- limit decisions side by side
\* Two goroutines execute a limit decision each for the symbol of a tracked
\* order. A step is one critical section of the OrderManager, one file
\* operation of Save or one call of the adapter.
ReplaceSymbol == "BTCUSDT"

InitReplace ==
    /\ orderManager = [EmptyMap EXCEPT
                         ![ReplaceSymbol] = StartupRecord(ReplaceSymbol, "long")]
    /\ ex = [InitEx({}) EXCEPT
               !.lim = [i \in 1..MaxOrders |-> StartupLimit({}, orderManager, i)],
               !.file = orderManager]
    /\ constraints = [cooldown |-> [sym \in Symbols |-> 0], hourly |-> <<>>]
    /\ pc = "decide"
    /\ ctx = NoCtx
    /\ dec = NoDec
    /\ tick = 1
    /\ obs = [InitObs EXCEPT !.faults = MaxFaults]
    /\ at = InitAt(0, 0, TRUE)
    /\ \E a \in [Goroutines -> {"open_long", "open_short"}] :
          run = [NoRun EXCEPT
                   !.g = [p \in Goroutines |->
                            [NoGo EXCEPT
                               !.pc = "begin",
                               !.d = Decision(a[p], ReplaceSymbol, 16000, 1,
                                              TRUE, 10000)]]]

\* the entry of executeOpenLimitOrderWithRecord: its checks, GetOrder and
\* ShouldUpdatePrice
Begin(p) ==
    /\ run.g[p].pc = "begin"
    /\ \E gp \in {GetPositions(InvalidatePositionsCache(NoCalls(ex)), "none")} :
       \E gb \in {GetBalance(gp.ex, "none")} :
         LET d == run.g[p].d
             aiDirection == IF d.action = "open_long" THEN "up" ELSE "down"
             hasOrder == orderManager[d.symbol].orderID # 0
             refused == \/ CanOpenPosition(constraints, d.symbol, Len(gp.res)) # "ok"
                        \/ OtherSymbolSameSide(gp.res, d.symbol, SideOf(d))
                        \/ FindPos(gp.res, d.symbol, SideOf(d)) # 0
                        \/ MarginRejected(gp.res, gb.res, d)
         IN /\ ex' = gb.ex
            /\ run' = [run EXCEPT !.g[p] =
                 IF refused \/ (hasOrder /\ ~ShouldUpdatePrice(orderManager,
                                     d.symbol, d.limitPrice, aiDirection))
                 THEN [@ EXCEPT !.pc = "done"]
                 ELSE IF hasOrder
                 THEN [@ EXCEPT !.pc = "cancel", !.replaced = TRUE,
                                !.old = orderManager[d.symbol].orderID]
                 ELSE [@ EXCEPT !.pc = "place"]]
    /\ UNCHANGED <<constraints, orderManager, pc, ctx, dec, tick, obs, at>>

\* CancelLimitOrder of the order found; an error is only logged
Cancel(p) ==
    /\ run.g[p].pc = "cancel"
    /\ ex' = CancelLimitOrder(NoCalls(ex), run.g[p].d.symbol, run.g[p].old,
                              "none").ex
    /\ run' = [run EXCEPT !.g[p].pc = "remove"]
    /\ UNCHANGED <<constraints, orderManager, pc, ctx, dec, tick, obs, at>>

\* RemoveOrder under the lock; its Save follows
Remove(p) ==
    /\ run.g[p].pc = "remove"
    /\ orderManager' = [orderManager EXCEPT ![run.g[p].d.symbol] = NoOrder]
    /\ run' = [run EXCEPT !.g[p].pc = "marshal", !.g[p].next = "place"]
    /\ ex' = NoCalls(ex)
    /\ UNCHANGED <<constraints, pc, ctx, dec, tick, obs, at>>

\* Save: the map is marshalled under the read lock
Marshal(p) ==
    /\ run.g[p].pc = "marshal"
    /\ run' = [run EXCEPT !.g[p].pc = "write", !.g[p].data = orderManager]
    /\ ex' = NoCalls(ex)
    /\ UNCHANGED <<constraints, orderManager, pc, ctx, dec, tick, obs, at>>

\* Save: the bytes are written to the temporary file
WriteFile(p) ==
    /\ run.g[p].pc = "write"
    /\ run' = [run EXCEPT !.g[p].pc = "rename",
                          !.tmp = [present |-> TRUE, data |-> run.g[p].data]]
    /\ ex' = NoCalls(ex)
    /\ UNCHANGED <<constraints, orderManager, pc, ctx, dec, tick, obs, at>>

\* Save: the temporary file is renamed over the file; the rename fails if
\* another Save has renamed it away, which the caller only logs
Rename(p) ==
    /\ run.g[p].pc = "rename"
    /\ ex' = IF run.tmp.present
             THEN Log([NoCalls(ex) EXCEPT !.file = run.tmp.data],
                      Call("SAVE", "Save", NIL, NIL, 0, 0, TRUE, FALSE))
             ELSE Log(NoCalls(ex),
                      Call("SAVE", "Save", NIL, NIL, 0, 0, FALSE, FALSE))
    /\ run' = [run EXCEPT !.g[p].pc = run.g[p].next,
                          !.tmp = [present |-> FALSE, data |-> EmptyMap]]
    /\ UNCHANGED <<constraints, orderManager, pc, ctx, dec, tick, obs, at>>

\* PlaceLimitOrder; an error ends the decision
Place(p) ==
    /\ run.g[p].pc = "place"
    /\ LET d == run.g[p].d
       IN \E pl \in {PlaceLimitOrder(NoCalls(ex), d.symbol, SideOf(d),
                                      d.limitPrice,
                                      QtyFor(d.positionSizeUSD, d.limitPrice),
                                      d.leverage, "none")} :
            /\ ex' = pl.ex
            /\ run' = [run EXCEPT !.g[p] =
                 IF pl.err THEN [@ EXCEPT !.pc = "done"]
                 ELSE [@ EXCEPT
                         !.pc = "add",
                         !.new = [orderID |-> pl.orderId, side |-> SideOf(d),
                                  price |-> d.limitPrice,
                                  quantity |-> QtyFor(d.positionSizeUSD,
                                                      d.limitPrice),
                                  leverage |-> d.leverage,
                                  stopLoss |-> d.stopLoss,
                                  takeProfit |-> d.takeProfit,
                                  aiDirection |-> IF d.action = "open_long"
                                                  THEN "up" ELSE "down"]]]
    /\ UNCHANGED <<constraints, orderManager, pc, ctx, dec, tick, obs, at>>

\* AddOrder under the lock; its Save follows
Add(p) ==
    /\ run.g[p].pc = "add"
    /\ orderManager' = [orderManager EXCEPT
                          ![run.g[p].d.symbol] = run.g[p].new]
    /\ run' = [run EXCEPT !.g[p].pc = "marshal", !.g[p].next = "done"]
    /\ ex' = NoCalls(ex)
    /\ UNCHANGED <<constraints, pc, ctx, dec, tick, obs, at>>

NextReplace ==
    \E p \in Goroutines :
        \/ Begin(p)
        \/ Cancel(p)
        \/ Remove(p)
        \/ Marshal(p)
        \/ WriteFile(p)
        \/ Rename(p)
        \/ Place(p)
        \/ Add(p)

SpecReplace == InitReplace /\ [][NextReplace]_vars

\* ------------------------------------------------- the decision loop
getActionPriority(action) ==
    CASE action \in {"close_long", "close_short"} -> 1
      [] action \in {"open_long", "open_short"} -> 2
      [] action \in {"hold", "wait"} -> 3
      [] OTHER -> 999

\* the inner loop of the sort: sorted[i] is swapped with every later element
\* of a smaller priority number
RECURSIVE SortInner(_, _, _)
SortInner(sorted, i, j) ==
    IF j > Len(sorted) THEN sorted
    ELSE SortInner(IF getActionPriority(sorted[i].action)
                        > getActionPriority(sorted[j].action)
                   THEN [sorted EXCEPT ![i] = sorted[j], ![j] = sorted[i]]
                   ELSE sorted,
                   i, j + 1)

RECURSIVE SortOuter(_, _)
SortOuter(sorted, i) ==
    IF i > Len(sorted) - 1 THEN sorted
    ELSE SortOuter(SortInner(sorted, i, i + 1), i + 1)

\* a sort that stops after the first round of the outer loop
sortDecisionsFirstPass(decisions) ==
    IF Len(decisions) <= 1 THEN decisions ELSE SortInner(decisions, 1, 2)

sortDecisionsByPriority(decisions) ==
    IF Len(decisions) <= 1 THEN decisions ELSE SortOuter(decisions, 1)

\* a loop that ends at the first decision that fails
NextDecisionOrBreak(i, n, err) == IF err THEN n + 1 ELSE i + 1

\* for _, d := range sortedDecisions: a failed decision is logged and the
\* loop goes on
NextDecision(i, n, err) == i + 1

\* the decisions that a tick's list is made of, and the longest list
MaxListed == 3
ListedDecisions ==
    {Decision("close_long", "BTCUSDT", 0, 1, FALSE, 10000),
     Decision("open_long", "ETHUSDT", 16000, 1, FALSE, 10000),
     Decision("open_short", "SOLUSDT", 16000, 1, FALSE, 10000),
     Decision("hold", "BTCUSDT", 0, 1, FALSE, 10000),
     Decision("wait", "ETHUSDT", 0, 1, FALSE, 10000)}

\* a long is held and GetFullDecision has returned a list in any order
InitLoop ==
    /\ ex = InitEx({<<"BTCUSDT", "long">>})
    /\ constraints = [cooldown |-> [sym \in Symbols |-> 0], hourly |-> <<>>]
    /\ orderManager = [sym \in Symbols |-> NoOrder]
    /\ run = NoRun
    /\ pc = "sort"
    /\ ctx = NoCtx
    /\ \E n \in 1..MaxListed :
         \E list \in [1..n -> ListedDecisions] :
            /\ \A i, j \in 1..n : list[i] = list[j] => i = j
            /\ dec = [list |-> list, sorted |-> <<>>, i |-> 1, log |-> <<>>]
    /\ tick = 1
    /\ obs = InitObs
    /\ at = InitAt(0, 0, FALSE)

\* runCycle step 7: the list is sorted
SortDecisions ==
    /\ pc = "sort"
    /\ dec' = [dec EXCEPT !.sorted = sortDecisionsByPriority(
                   [k \in 1..Len(dec.list) |->
                      convertAgentDecisions(dec.list[k])])]
    /\ pc' = "loop"
    /\ UNCHANGED <<ex, constraints, orderManager, ctx, tick, obs, at, run>>

\* one round of the loop over the sorted decisions
ExecuteSorted ==
    /\ pc = "loop" /\ dec.i <= Len(dec.sorted)
    /\ LET d == dec.sorted[dec.i]
       IN \E f \in MayFail(executeDecisionWithRecord(
                              NoCalls(ex), constraints, orderManager, d,
                              "none").ex.calls) :
          \E r \in {executeDecisionWithRecord(NoCalls(ex), constraints,
                                              orderManager, d, f)} :
            /\ ex' = r.ex
            /\ constraints' = r.constraints
            /\ orderManager' = r.orderManager
            /\ obs' = Track(obs, r.ex, f)
            /\ at' = [at EXCEPT !.dailyPnL = @ + r.pnl]
            /\ dec' = [dec EXCEPT
                         !.i = NextDecision(dec.i, Len(dec.sorted), r.err),
                         !.log = Append(@, [action |-> d.action,
                                            symbol |-> d.symbol,
                                            err |-> r.err, fault |-> f])]
    /\ UNCHANGED <<pc, ctx, tick, run>>

\* runCycle step 8: the loop is over, the record is saved
LogDecision ==
    /\ pc = "loop" /\ dec.i > Len(dec.sorted)
    /\ pc' = "done"
    /\ UNCHANGED <<ex, constraints, orderManager, ctx, dec, tick, obs, at, run>>

NextLoop ==
    \/ SortDecisions
    \/ ExecuteSorted
    \/ LogDecision

SpecLoop == InitLoop /\ [][NextLoop]_vars

\* ------------------------------------------- the orchestrator's closes
\* times of this section are minutes that have passed since an event;
\* profit on margin is in hundredths of a percent
FlipMinProbability == 65   \* percent: the flip rule needs more
FlipMinHold == 30          \* minutes: the flip rule needs more
HardStopPct == 20          \* percent lost on margin: the hard stop needs more
ProfitTakePct == 20        \* percent won on margin: the profit take needs more
StaleHold == 1440          \* minutes (24 h): the stale rule needs more
StalePnLPct == 5           \* percent won on margin: the stale rule needs less
FirstSeenEstimate == 60    \* minutes assumed for a position seen first
MinHoldMinutes == 15       \* the minimum hold that the trader announces
HoldLeverage == 5          \* leverage of the position held in this section
HoldSymbol == "ETHUSDT"    \* its symbol

\* the zero time.Time, the absent map entry
NoTime == -1

\* buildTradingContext: pnlPct of a position of the venue's list
PnLPct(p) ==
    IF p.side = "long"
    THEN ((p.markPrice - p.entryPrice) * p.leverage * 10000) \div p.entryPrice
    ELSE ((p.entryPrice - p.markPrice) * p.leverage * 10000) \div p.entryPrice

\* TradingConstraints.GetPositionOpenTime: the open time recorded by
\* RecordOpenPosition, the zero time without a record
GetPositionOpenTime(c, symbol, side) == c.openTime[<<symbol, side>>]

\* buildTradingContext: a position without a first-seen time gets one of 60
\* minutes ago; the entries of positions no longer held are deleted
SeePositions(a, positions) ==
    [a EXCEPT !.positionFirstSeenTime =
        [k \in PosKeys |->
           IF FindPos(positions, k[1], k[2]) = 0 THEN NoTime
           ELSE IF @[k] = NoTime THEN FirstSeenEstimate
           ELSE @[k]]]

\* buildTradingContext: the PositionInfo of a position; its open time is the
\* one of the constraints and, without one, the first-seen time
PositionInfo(a, c, p) ==
    [symbol |-> p.symbol, side |-> p.side,
     unrealizedPnLPct |-> PnLPct(p),
     updateTime |-> a.positionFirstSeenTime[<<p.symbol, p.side>>],
     openTime |-> IF GetPositionOpenTime(c, p.symbol, p.side) = NoTime
                  THEN a.positionFirstSeenTime[<<p.symbol, p.side>>]
                  ELSE GetPositionOpenTime(c, p.symbol, p.side)]

\* types.Prediction: the direction and the probability in percent
Directions == {"up", "down", "neutral"}
Probabilities == {65, 66, 79, 80}
Prediction(direction, probability) ==
    [direction |-> direction, probability |-> probability]
\* PredictWithRetry has failed
NoPrediction == Prediction(NIL, 0)
PredictionOutcomes ==
    {Prediction(d, p) : d \in Directions, p \in Probabilities}
      \cup {NoPrediction}

\* the prediction is against the side of the position
Flips(pos, prediction) ==
    \/ pos.side = "long" /\ prediction.direction = "down"
    \/ pos.side = "short" /\ prediction.direction = "up"

Verdict(close, reason) == [close |-> close, reason |-> reason]

\* a close rule that flips a position whatever its age
shouldCloseAtAnyAge(pos, prediction) ==
    IF Flips(pos, prediction) /\ prediction.probability > FlipMinProbability
    THEN Verdict(TRUE, "flip")
    ELSE IF pos.unrealizedPnLPct < -(HardStopPct * 100)
    THEN Verdict(TRUE, "stop")
    ELSE IF /\ pos.unrealizedPnLPct > ProfitTakePct * 100
            /\ prediction.direction = "neutral"
    THEN Verdict(TRUE, "profit")
    ELSE IF pos.openTime > StaleHold /\ pos.unrealizedPnLPct < StalePnLPct * 100
    THEN Verdict(TRUE, "stale")
    ELSE Verdict(FALSE, "")

\* a close rule whose hard stop waits as long as the flip rule
shouldCloseStopWhenOld(pos, prediction) ==
    IF /\ Flips(pos, prediction)
       /\ prediction.probability > FlipMinProbability
       /\ pos.openTime > FlipMinHold
    THEN Verdict(TRUE, "flip")
    ELSE IF /\ pos.unrealizedPnLPct < -(HardStopPct * 100)
            /\ pos.openTime > FlipMinHold
    THEN Verdict(TRUE, "stop")
    ELSE IF /\ pos.unrealizedPnLPct > ProfitTakePct * 100
            /\ prediction.direction = "neutral"
    THEN Verdict(TRUE, "profit")
    ELSE IF pos.openTime > StaleHold /\ pos.unrealizedPnLPct < StalePnLPct * 100
    THEN Verdict(TRUE, "stale")
    ELSE Verdict(FALSE, "")

\* shouldClosePositionWithReason: the first rule that matches
shouldClosePositionWithReason(pos, prediction) ==
    IF /\ Flips(pos, prediction)
       /\ prediction.probability > FlipMinProbability
       /\ pos.openTime > FlipMinHold
    THEN Verdict(TRUE, "flip")
    ELSE IF pos.unrealizedPnLPct < -(HardStopPct * 100)
    THEN Verdict(TRUE, "stop")
    ELSE IF /\ pos.unrealizedPnLPct > ProfitTakePct * 100
            /\ prediction.direction = "neutral"
    THEN Verdict(TRUE, "profit")
    ELSE IF pos.openTime > StaleHold /\ pos.unrealizedPnLPct < StalePnLPct * 100
    THEN Verdict(TRUE, "stale")
    ELSE Verdict(FALSE, "")

\* a decision of STEP 2 with the reason of its close
Managed(action, pos, reason) ==
    [reasoning |-> reason] @@ Decision(action, pos.symbol, 0, 0, FALSE, 0)

\* STEP 2 of GetFullDecisionPredictive for one position: a position without
\* market data or without a prediction is skipped, the others are closed or
\* held as shouldClosePositionWithReason says (the data of BTCUSDT, without
\* which the function returns an error, are taken to be there)
ManagePosition(pos, hasData, prediction) ==
    IF ~hasData \/ prediction = NoPrediction THEN <<>>
    ELSE IF shouldClosePositionWithReason(pos, prediction).close
    THEN <<Managed(IF pos.side = "short" THEN "close_short" ELSE "close_long",
                   pos, shouldClosePositionWithReason(pos, prediction).reason)>>
    ELSE <<Managed("hold", pos, "")>>

RECURSIVE ManageLoop(_, _, _, _)
ManageLoop(positions, i, hasData, prediction) ==
    IF i > Len(positions) THEN <<>>
    ELSE ManagePosition(positions[i], hasData, prediction)
           \o ManageLoop(positions, i + 1, hasData, prediction)

\* the list that GetFullDecisionPredictive returns when no candidate is
\* opened: the decisions of STEP 2 and, if there is none, one wait
ManagedDecisions(positions, hasData, prediction) ==
    IF ManageLoop(positions, 1, hasData, prediction) = <<>>
    THEN <<[reasoning |-> ""] @@ Decision("wait", "BTCUSDT", 0, 0, FALSE, 0)>>
    ELSE ManageLoop(positions, 1, hasData, prediction)

\* minutes between two ticks, ages of the position at the start, the marks
HoldSteps == {5, 15, 20}
InitialHolds == {0, 1440}
HoldPrices == {9500, 9600, 10000, 10500}

Later(t, d) == IF t = NoTime THEN NoTime ELSE t + d

\* what is true of the positions: the minutes each has been held
HeldFor(e, age) == [k \in PosKeys |-> IF e.pos[k].qty > 0 THEN age[k] ELSE NoTime]

\* the decisions of a cycle with the prediction they were made from
NoManaged == [list |-> <<>>, prediction |-> NoPrediction, hasData |-> FALSE,
              offered |-> <<>>]

\* NewTradingConstraints and NewAutoTrader: nothing is recorded
NoOpenTimes == [k \in PosKeys |-> NoTime]

\* the trader has opened a position of BTCUSDT at 5x, now or a day ago, and
\* has recorded it; no candidate is offered, no call fails
InitHold ==
    /\ \E side \in Sides, a0 \in InitialHolds :
         /\ ex = [InitEx({<<HoldSymbol, side>>}) EXCEPT
                    !.pos[<<HoldSymbol, side>>].lev = HoldLeverage]
         /\ constraints = [cooldown |-> [sym \in Symbols |-> 0],
                           hourly |-> <<>>,
                           openTime |-> [NoOpenTimes EXCEPT
                                           ![<<HoldSymbol, side>>] = a0]]
         /\ at = [positionFirstSeenTime |->
                    [NoOpenTimes EXCEPT ![<<HoldSymbol, side>>] = a0]]
                   @@ InitAt(0, 0, FALSE)
         /\ obs = [age |-> [NoOpenTimes EXCEPT ![<<HoldSymbol, side>>] = a0]]
                    @@ [InitObs EXCEPT !.faults = MaxFaults]
    /\ orderManager = [sym \in Symbols |-> NoOrder]
    /\ run = NoRun
    /\ pc = "idle"
    /\ ctx = NoCtx
    /\ dec = NoManaged
    /\ tick = 0

\* the ticker waits for the next tick
Wait(d) ==
    /\ pc = "idle" /\ tick < MaxTicks
    /\ pc' = "due"
    /\ ex' = Sleep(NoCalls(ex), d)
    /\ constraints' = [constraints EXCEPT
                         !.cooldown = [sym \in Symbols |-> Elapse(@[sym], d)],
                         !.openTime = [k \in PosKeys |-> Later(@[k], d)]]
    /\ at' = [at EXCEPT !.positionFirstSeenTime =
                           [k \in PosKeys |-> Later(@[k], d)]]
    /\ obs' = [obs EXCEPT !.age = [k \in PosKeys |-> Later(@[k], d)]]
    /\ UNCHANGED <<orderManager, ctx, dec, tick, run>>

\* the process is started again: NewAutoTrader makes new constraints, a new
\* adapter and an empty first-seen map, and Run begins with a cycle
Restart ==
    /\ pc = "idle" /\ tick < MaxTicks
    /\ pc' = "due"
    /\ ex' = [invalidateCache(NoCalls(ex)) EXCEPT
                !.lastCloseTimes = [sym \in Symbols |-> 0]]
    /\ constraints' = [cooldown |-> [sym \in Symbols |-> 0], hourly |-> <<>>,
                       openTime |-> NoOpenTimes]
    /\ at' = [at EXCEPT !.positionFirstSeenTime = NoOpenTimes]
    /\ UNCHANGED <<orderManager, ctx, dec, tick, obs, run>>

\* a cycle up to the decisions: buildTradingContext and STEP 2 of
\* GetFullDecisionPredictive with the prediction that the agent returns
ManagePositions ==
    /\ pc = "due"
    /\ pc' = "decided"
    /\ tick' = tick + 1
    /\ \E gp \in {GetPositions(NoCalls(ex), "none")} :
       \E hasData \in BOOLEAN, prediction \in PredictionOutcomes :
         /\ ex' = gp.ex
         /\ at' = SeePositions(at, gp.res)
         /\ ctx' = [positions |->
                       [i \in 1..Len(gp.res) |->
                          PositionInfo(SeePositions(at, gp.res), constraints,
                                       gp.res[i])],
                    totalEquity |-> Equity(gp.ex),
                    availableBalance |-> 0]
         /\ dec' = [list |-> ManagedDecisions(ctx'.positions, hasData,
                                              prediction),
                    prediction |-> prediction, hasData |-> hasData,
                    offered |-> <<>>]
         /\ obs' = [obs EXCEPT !.age = HeldFor(gp.ex, @)]
    /\ UNCHANGED <<constraints, orderManager, run>>

RECURSIVE ExecuteList(_, _, _)
ExecuteList(st, list, i) ==
    IF i > Len(list) THEN st
    ELSE With([r \in {executeDecisionWithRecord(
                         st.ex, st.constraints, st.orderManager,
                         convertAgentDecisions(list[i]), "none")} |->
           ExecuteList(r, list, i + 1)])

\* the rest of the cycle: the decisions are executed in their order
ExecuteManaged ==
    /\ pc = "decided"
    /\ pc' = "idle"
    /\ \E r \in {ExecuteList(Outcome(NoCalls(ex), constraints, orderManager,
                                     FALSE),
                             sortDecisionsByPriority(dec.list), 1)} :
         /\ ex' = r.ex
         /\ constraints' = r.constraints
         /\ orderManager' = r.orderManager
         /\ obs' = [obs EXCEPT !.age = HeldFor(r.ex, @)]
    /\ ctx' = NoCtx
    /\ dec' = NoManaged
    /\ UNCHANGED <<tick, at, run>>

NextHold ==
    \/ \E d \in HoldSteps : Wait(d)
    \/ Restart
    \/ \E p \in HoldPrices : PriceMove(HoldSymbol, p)
    \/ ManagePositions
    \/ ExecuteManaged

SpecHold == InitHold /\ [][NextHold]_vars

\* --------------------------------------------- the opens of the orchestrator
MinProbability == 65       \* percent: the floor without an account loss
AccountHaltPct == 20       \* percent of account loss beyond which no open
AccountStrictPct == 15     \* beyond it the floor is 85%
AccountCarefulPct == 10    \* beyond it the floor is 78%
AccountCautiousPct == 5    \* beyond it the floor is 70%

\* buildTradingContext: totalPnLPct, in hundredths of a percent
TotalPnLPct(a, totalEquity) ==
    IF a.initialBalance > 0
    THEN ((totalEquity - a.initialBalance) * 10000) \div a.initialBalance
    ELSE 0

\* STEP 3: accountRiskViolation is set when the account has lost more than 20%
accountRiskViolation(accountTotalPnLPct) ==
    accountTotalPnLPct < -(AccountHaltPct * 100)

\* STEP 3: requiredMinProb, in percent
requiredMinProb(accountTotalPnLPct) ==
    IF accountTotalPnLPct < -(AccountHaltPct * 100) THEN 101
    ELSE IF accountTotalPnLPct < -(AccountStrictPct * 100)
    THEN Max(MinProbability, 85)
    ELSE IF accountTotalPnLPct < -(AccountCarefulPct * 100)
    THEN Max(MinProbability, 78)
    ELSE IF accountTotalPnLPct < -(AccountCautiousPct * 100)
    THEN Max(MinProbability, 70)
    ELSE MinProbability

\* STEP 3: meetsConfidence with allowMediumConf
meetsConfidence(prediction) ==
    prediction.confidence \in {"high", "very_high", "medium"}

\* a check of the candidate that does not look at the account
IsValidPredictionAtAnyLoss(accountTotalPnLPct, prediction) ==
    /\ prediction.probability >= MinProbability
    /\ meetsConfidence(prediction)
    /\ prediction.direction # "neutral"

\* STEP 3: the prediction of a candidate is worth an open
IsValidPrediction(accountTotalPnLPct, prediction) ==
    /\ ~accountRiskViolation(accountTotalPnLPct)
    /\ prediction.probability >= requiredMinProb(accountTotalPnLPct)
    /\ meetsConfidence(prediction)
    /\ prediction.direction # "neutral"

\* what the agent and the sizing return for a candidate: the prediction and
\* the position that calculatePositionFromPrediction derives from it
\* (positionSize 0: the sizing or the validation has failed)
Offer(direction, probability, confidence, positionSize, leverage) ==
    [direction |-> direction, probability |-> probability,
     confidence |-> confidence, positionSize |-> positionSize,
     leverage |-> leverage]
NoOffer == Offer(NIL, 0, NIL, 0, 0)
OfferProbabilities == {65, 78, 85}
Confidences == {"low", "high"}
Offers ==
    {Offer(d, p, c, z, l) : d \in Directions, p \in OfferProbabilities,
                            c \in Confidences, z \in PositionSizes \cup {0},
                            l \in Leverages}
      \cup {NoOffer}

\* STEP 3 and STEP 4: the candidates that are not held are walked in their
\* order; one with a valid prediction is opened while slots remain and the
\* margin fits the remaining balance
RECURSIVE OpenLoop(_, _, _, _, _, _)
OpenLoop(c, e, offered, i, opened, remainingBalance) ==
    IF i > Len(SymbolSeq) THEN <<>>
    ELSE LET sym == SymbolSeq[i]
             o == offered[sym]
             requiredMargin == o.positionSize \div o.leverage
         IN IF \/ sym \notin DOMAIN offered
               \/ sym \in HeldSymbols(c.positions)
               \/ offered[sym] = NoOffer
               \/ ~IsValidPrediction(c.totalPnLPct, offered[sym])
               \/ opened >= MaxPositions - Len(c.positions)
               \/ offered[sym].positionSize = 0
               \/ requiredMargin > remainingBalance
            THEN OpenLoop(c, e, offered, i + 1, opened, remainingBalance)
            ELSE <<[reasoning |-> "prediction"] @@
                   Decision(IF o.direction = "down" THEN "open_short"
                            ELSE "open_long",
                            sym, o.positionSize, o.leverage, FALSE,
                            e.mark[sym])>>
                 \o OpenLoop(c, e, offered, i + 1, opened + 1,
                             remainingBalance - requiredMargin)

\* GetFullDecisionPredictive: the decisions of STEP 2, those of STEP 4 and,
\* if there is none at all, one wait
FullDecision(c, e, hasData, prediction, offered) ==
    IF ManageLoop(c.positions, 1, hasData, prediction)
         \o OpenLoop(c, e, offered, 1, 0, c.availableBalance) = <<>>
    THEN <<[reasoning |-> ""] @@ Decision("wait", "BTCUSDT", 0, 0, FALSE, 0)>>
    ELSE ManageLoop(c.positions, 1, hasData, prediction)
           \o OpenLoop(c, e, offered, 1, 0, c.availableBalance)

\* the wallets of the account at the start: with 2000 USDT as the initial
\* balance they are a loss of 25%, 20%, 15% and none
AccountWallets == {150000, 160000, 170000, 200000}
CandidateCoins == {"SOLUSDT"}

\* the trader holds a long of ETHUSDT at 5x that it has opened and recorded;
\* SOLUSDT is the candidate; no call fails
InitAccount ==
    /\ \E w \in AccountWallets :
         ex = [InitEx({<<HoldSymbol, "long">>}) EXCEPT
                 !.pos[<<HoldSymbol, "long">>].lev = HoldLeverage,
                 !.wallet = w]
    /\ constraints = [cooldown |-> [sym \in Symbols |-> 0], hourly |-> <<>>,
                      openTime |-> [NoOpenTimes EXCEPT
                                      ![<<HoldSymbol, "long">>] = 0]]
    /\ at = [positionFirstSeenTime |->
               [NoOpenTimes EXCEPT ![<<HoldSymbol, "long">>] = 0]]
              @@ InitAt(0, 0, FALSE)
    /\ obs = [age |-> [NoOpenTimes EXCEPT ![<<HoldSymbol, "long">>] = 0]]
               @@ [InitObs EXCEPT !.faults = MaxFaults]
    /\ orderManager = [sym \in Symbols |-> NoOrder]
    /\ run = NoRun
    /\ pc = "idle"
    /\ ctx = NoCtx
    /\ dec = NoManaged
    /\ tick = 0

\* a cycle up to the decisions: buildTradingContext and
\* GetFullDecisionPredictive with what the agent returns for the position
\* and for the candidates
DecideAll ==
    /\ pc = "due"
    /\ pc' = "decided"
    /\ tick' = tick + 1
    /\ \E gb \in {GetBalance(NoCalls(ex), "none")} :
       \E gp \in {GetPositions(gb.ex, "none")} :
       \E hasData \in BOOLEAN, prediction \in PredictionOutcomes,
          offered \in [CandidateCoins -> Offers] :
         /\ ex' = gp.ex
         /\ at' = SeePositions(at, gp.res)
         /\ ctx' = [positions |->
                       [i \in 1..Len(gp.res) |->
                          PositionInfo(SeePositions(at, gp.res), constraints,
                                       gp.res[i])],
                    totalEquity |-> gb.res.totalWalletBalance
                                      + gb.res.totalUnrealizedProfit,
                    availableBalance |-> gb.res.availableBalance,
                    totalPnLPct |->
                       TotalPnLPct(at, gb.res.totalWalletBalance
                                         + gb.res.totalUnrealizedProfit)]
         /\ dec' = [list |-> FullDecision(ctx', gp.ex, hasData, prediction,
                                          offered),
                    prediction |-> prediction, hasData |-> hasData,
                    offered |-> offered]
         /\ obs' = [obs EXCEPT !.age = HeldFor(gp.ex, @)]
    /\ UNCHANGED <<constraints, orderManager, run>>

NextAccount ==
    \/ Wait(20)
    \/ \E p \in {9500, 10000} : PriceMove(HoldSymbol, p)
    \/ DecideAll
    \/ ExecuteManaged

SpecAccount == InitAccount /\ [][NextAccount]_vars

\* ------------------------------------------------- the risk parameters
\* best_case and worst_case are price moves in hundredths of a percent; the
\* ATR is in price units; ratios are compared by cross-multiplication
MinStopMultiple10 == 45       \* MinStopMultiple 4.5, in tenths
MinRiskReward == 2
LiquidationMarginRatePct == 95  \* LiquidationMarginRate 0.95, in percent
LiquidationSafetyPct == 30      \* LiquidationSafetyRatio 0.3, in percent
MaxPositionPct == 60          \* share of the equity one position may take
MarginUsePct == 90            \* share of the balance one margin may take

\* market.Data: the current price and the ATR14 of the longer-term context
MarketData(currentPrice, atr14) == [currentPrice |-> currentPrice, atr14 |-> atr14]

\* atrPct in hundredths of a percent
AtrPct(md) == (md.atr14 * 10000) \div md.currentPrice

\* calculatePositionFromPrediction, the repair of the signs: for a short the
\* best case is a fall and the worst case a rise, for a long the reverse
FixSigns(p) ==
    IF p.direction = "down"
    THEN IF p.bestCase > 0
         THEN [p EXCEPT !.bestCase = -Abs(p.worstCase),
                        !.worstCase = Abs(p.bestCase)]
         ELSE IF p.bestCase < 0 /\ p.worstCase < 0
         THEN IF Abs(p.bestCase) < Abs(p.worstCase)
              THEN [p EXCEPT !.bestCase = p.worstCase,
                             !.worstCase = -p.bestCase]
              ELSE [p EXCEPT !.worstCase = -p.worstCase]
         ELSE IF p.worstCase < 0
         THEN [p EXCEPT !.worstCase = -p.worstCase]
         ELSE p
    ELSE IF p.direction = "up"
    THEN IF p.bestCase < 0
         THEN [p EXCEPT !.bestCase = Abs(p.worstCase),
                        !.worstCase = -Abs(p.bestCase)]
         ELSE IF p.worstCase > 0
         THEN [p EXCEPT !.worstCase = -p.worstCase]
         ELSE p
    ELSE p

\* minCaseValue: 0.5% or 4.5 times the ATR%
MinCaseValue(md) == Max(50, (AtrPct(md) * MinStopMultiple10) \div 10)

RaiseCase(x, minCaseValue) ==
    IF Abs(x) < minCaseValue
    THEN (IF x >= 0 THEN minCaseValue ELSE -minCaseValue)
    ELSE x

\* the cases are raised to minCaseValue
RaiseCases(p, md) ==
    [p EXCEPT !.bestCase = RaiseCase(@, MinCaseValue(md)),
              !.worstCase = RaiseCase(@, MinCaseValue(md))]

\* the best case is raised until the reward is twice the risk
EnsureRiskReward(p) ==
    IF Abs(p.bestCase) < MinRiskReward * Abs(p.worstCase)
    THEN [p EXCEPT !.bestCase =
            IF p.direction = "down" THEN -(MinRiskReward * Abs(p.worstCase))
            ELSE MinRiskReward * Abs(p.worstCase)]
    ELSE p

\* payoffRatio as a fraction
PayoffRatio(p) ==
    IF p.direction = "down"
    THEN IF p.bestCase < 0 /\ p.worstCase < 0 /\ Abs(p.worstCase) > Abs(p.bestCase)
         THEN [num |-> Abs(p.worstCase), den |-> Abs(p.bestCase)]
         ELSE [num |-> Abs(p.bestCase), den |-> Abs(p.worstCase)]
    ELSE [num |-> p.bestCase, den |-> Abs(p.worstCase)]

\* the Kelly fraction times 100 times the numerator of the payoff ratio
KellyNumerator(p) ==
    p.probability * PayoffRatio(p).num
      - (100 - p.probability) * PayoffRatio(p).den

\* the leverage for the risk level of the prediction
RiskLeverage(p, baseLeverage) ==
    Max(1, CASE p.riskLevel = "low" -> baseLeverage
             [] p.riskLevel = "medium" -> (baseLeverage * 8) \div 10
             [] p.riskLevel = "high" -> (baseLeverage * 6) \div 10
             [] OTHER -> (baseLeverage * 8) \div 10)

\* the position size: the Kelly share of the equity (to a tenth of a
\* percent), at most 60% of it, at
\* least 100 USDT, cut to the margin that 90% of the balance allows; 0 when
\* not even 100 USDT can be funded
PositionSize(p, leverage, totalEquity, availableBalance) ==
    With([kelly \in {Max(MinNotional,
                         Min((totalEquity
                                * ((KellyNumerator(p) * 10)
                                     \div PayoffRatio(p).num)) \div 1000,
                             (totalEquity * MaxPositionPct) \div 100))} |->
      IF kelly * 100 > availableBalance * MarginUsePct * leverage
      THEN IF (availableBalance * MarginUsePct * leverage) \div 100 < MinNotional
           THEN (IF MinNotional > availableBalance * leverage THEN 0
                 ELSE MinNotional)
           ELSE (availableBalance * MarginUsePct * leverage) \div 100
      ELSE kelly])

CasePrice(md, case) == md.currentPrice + (md.currentPrice * case) \div 10000

\* the stop is at or beyond the estimated liquidation price
BeyondLiquidation(p, md, stopLoss, leverage) ==
    IF p.direction = "up"
    THEN (md.currentPrice - stopLoss) * leverage * 100
           >= LiquidationMarginRatePct * md.currentPrice
    ELSE (stopLoss - md.currentPrice) * leverage * 100
           >= LiquidationMarginRatePct * md.currentPrice

NoParameters ==
    [err |-> TRUE, positionSize |-> 0, leverage |-> 0, stopLoss |-> 0,
     takeProfit |-> 0]

\* calculatePositionFromPrediction after the repair of the cases
CalculateFromCases(p, md, baseLeverage, totalEquity, availableBalance) ==
    IF PayoffRatio(p).num <= 0 \/ KellyNumerator(p) <= 0 THEN NoParameters
    ELSE
    With([size \in {PositionSize(p, RiskLeverage(p, baseLeverage), totalEquity,
                                 availableBalance)},
          leverage \in {IF BeyondLiquidation(p, md, CasePrice(md, p.worstCase),
                                             RiskLeverage(p, baseLeverage))
                        THEN Max(1, (RiskLeverage(p, baseLeverage) * 7) \div 10)
                        ELSE RiskLeverage(p, baseLeverage)} |->
      IF size = 0 \/ size * 100 > availableBalance * MarginUsePct * leverage
      THEN NoParameters
      ELSE [err |-> FALSE, positionSize |-> size, leverage |-> leverage,
            stopLoss |-> CasePrice(md, p.worstCase),
            takeProfit |-> CasePrice(md, p.bestCase)]])

\* calculatePositionFromPrediction
calculatePositionFromPrediction(prediction, md, baseLeverage, equity, balance) ==
    CalculateFromCases(
      EnsureRiskReward(RaiseCases(FixSigns(prediction), md)),
      md, baseLeverage, equity, balance)

\* the long tests that validateRiskParameters makes of its direction
LongTestOfSizes(direction) == direction = "up" \/ direction = "long"
LongTestOfLiquidation(direction) == direction = "long"

\* the stop keeps the safety buffer from the estimated liquidation price:
\* for a long it is at or above liq + (price - liq) * 0.3, for a short at or
\* below liq - (liq - price) * 0.3
SafeFromLiquidation(long, currentPrice, stopLoss, leverage) ==
    IF long
    THEN (currentPrice - stopLoss) * leverage * 10000
           <= LiquidationMarginRatePct * (100 - LiquidationSafetyPct)
                * currentPrice
    ELSE (stopLoss - currentPrice) * leverage * 10000
           <= LiquidationMarginRatePct * (100 - LiquidationSafetyPct)
                * currentPrice

\* the distances of the stop and of the target from the price
StopDistance(long, currentPrice, stopLoss) ==
    IF long THEN currentPrice - stopLoss ELSE stopLoss - currentPrice
TargetDistance(long, currentPrice, takeProfit) ==
    IF long THEN takeProfit - currentPrice ELSE currentPrice - takeProfit

\* the reward is at least 2.0 * (1 - 0.05) times the risk
RiskRewardOk(stopDistance, targetDistance) ==
    stopDistance > 0 /\ targetDistance * 100 >= 190 * stopDistance

\* the ranges of validateRiskParameters: in a market with an ATR below 0.5%
\* the stop is 1% to 10% and the target 2% to 20% of the price; otherwise the
\* stop is 4.275 to 26.25 and the target 8.55 to 31.5 times the ATR
RangesOk(md, stopDistance, targetDistance) ==
    IF AtrPct(md) < 50
    THEN /\ stopDistance * 100 >= md.currentPrice
         /\ stopDistance * 100 <= 10 * md.currentPrice
         /\ targetDistance * 100 >= 2 * md.currentPrice
         /\ targetDistance * 100 <= 20 * md.currentPrice
    ELSE /\ stopDistance * 1000 >= 4275 * md.atr14
         /\ stopDistance * 100 <= 2625 * md.atr14
         /\ targetDistance * 100 >= 855 * md.atr14
         /\ targetDistance * 10 <= 315 * md.atr14

\* validateRiskParameters: TRUE when it returns no error
validateRiskParameters(direction, md, stopLoss, takeProfit, leverage) ==
    /\ RangesOk(md,
                StopDistance(LongTestOfSizes(direction), md.currentPrice,
                             stopLoss),
                TargetDistance(LongTestOfSizes(direction), md.currentPrice,
                               takeProfit))
    /\ RiskRewardOk(StopDistance(LongTestOfSizes(direction), md.currentPrice,
                                 stopLoss),
                    TargetDistance(LongTestOfSizes(direction), md.currentPrice,
                                   takeProfit))
    /\ SafeFromLiquidation(LongTestOfLiquidation(direction), md.currentPrice,
                           stopLoss, leverage)

\* what the agent predicts for a candidate, the market it is in, and the
\* leverage that the configuration gives its symbol
CaseValues == {-1400, -400, 400, 1400}
AtrValues == {40, 100, 300}
BaseLeverages == {5, 20}
RiskLevels == {"low", "high"}
SizedPredictions ==
    {[direction |-> d, probability |-> p, bestCase |-> b, worstCase |-> w,
      riskLevel |-> r] :
       d \in {"up", "down"}, p \in {65, 80}, b \in CaseValues,
       w \in CaseValues, r \in RiskLevels}

\* STEP 4 begins for a candidate with a valid prediction: 1000 USDT is the
\* price, 2000 USDT the equity and the balance
InitSizing ==
    /\ ex = InitEx({})
    /\ constraints = [cooldown |-> [sym \in Symbols |-> 0], hourly |-> <<>>]
    /\ orderManager = [sym \in Symbols |-> NoOrder]
    /\ run = NoRun
    /\ pc = "valid"
    /\ \E p \in SizedPredictions, atr \in AtrValues, l \in BaseLeverages :
         ctx = [prediction |-> p, marketData |-> MarketData(10000, atr),
                baseLeverage |-> l, totalEquity |-> InitialWallet,
                availableBalance |-> InitialWallet]
    /\ dec = [parameters |-> NoParameters, list |-> <<>>]
    /\ tick = 0
    /\ obs = InitObs
    /\ at = InitAt(0, 0, FALSE)

\* STEP 4: calculatePositionFromPrediction; on an error the candidate is
\* dropped
CalculatePosition ==
    /\ pc = "valid"
    /\ \E r \in {calculatePositionFromPrediction(
                   ctx.prediction, ctx.marketData, ctx.baseLeverage,
                   ctx.totalEquity, ctx.availableBalance)} :
         /\ dec' = [dec EXCEPT !.parameters = r]
         /\ pc' = IF r.err THEN "dropped" ELSE "sized"
    /\ UNCHANGED <<ex, constraints, orderManager, ctx, tick, obs, at, run>>

\* STEP 4: validateRiskParameters; on an error the candidate is dropped
ValidateParameters ==
    /\ pc = "sized"
    /\ pc' = IF validateRiskParameters(
                  ctx.prediction.direction, ctx.marketData,
                  dec.parameters.stopLoss, dec.parameters.takeProfit,
                  dec.parameters.leverage)
             THEN "validated" ELSE "dropped"
    /\ UNCHANGED <<ex, constraints, orderManager, ctx, dec, tick, obs, at, run>>

\* STEP 4: the open decision is appended with the risk parameters
EmitOpen ==
    /\ pc = "validated"
    /\ pc' = "emitted"
    /\ dec' = [dec EXCEPT !.list =
                 <<[action |-> IF ctx.prediction.direction = "down"
                               THEN "open_short" ELSE "open_long",
                    symbol |-> "SOLUSDT",
                    leverage |-> dec.parameters.leverage,
                    positionSizeUSD |-> dec.parameters.positionSize,
                    stopLoss |-> dec.parameters.stopLoss,
                    takeProfit |-> dec.parameters.takeProfit,
                    currentPrice |-> ctx.marketData.currentPrice]>>]
    /\ UNCHANGED <<ex, constraints, orderManager, ctx, tick, obs, at, run>>

NextSizing ==
    \/ CalculatePosition
    \/ ValidateParameters
    \/ EmitOpen

SpecSizing == InitSizing /\ [][NextSizing]_vars

\* ------------------------------------------------ the portfolio risk gate
MaxTotalRiskPct == 20      \* percent of the equity at risk in all positions
MaxCorrelatedSymbols == 2  \* positions of one side within one group
MaxSingleSymbolPct == 10   \* percent of the equity at risk in one symbol
ExistingRiskPct == 20      \* percent of its margin a held position risks

\* CorrelationGroups: the coins of each group
CorrelationGroups ==
    [main |-> {"BTCUSDT", "ETHUSDT"},
     layer1 |-> {"SOLUSDT", "AVAXUSDT", "NEARUSDT", "APTUSDT", "SUIUSDT"},
     defi |-> {"UNIUSDT", "AAVEUSDT", "MKRUSDT", "COMPUSDT"},
     meme |-> {"DOGEUSDT", "SHIBUSDT", "PEPEUSDT", "FLOKIUSDT"},
     layer2 |-> {"ARBUSDT", "OPUSDT", "MATICUSDT"}]

\* getCorrelationGroup: the group of a coin, "" for a coin of no group
getCorrelationGroup(symbol) ==
    IF \E g \in DOMAIN CorrelationGroups : symbol \in CorrelationGroups[g]
    THEN CHOOSE g \in DOMAIN CorrelationGroups :
           symbol \in CorrelationGroups[g]
    ELSE ""

PositionInfoInput(symbol, side, marginUsed) ==
    [symbol |-> symbol, side |-> side, marginUsed |-> marginUsed]

RECURSIVE TotalRiskUSD(_, _)
TotalRiskUSD(existingPositions, i) ==
    IF i > Len(existingPositions) THEN 0
    ELSE (existingPositions[i].marginUsed * ExistingRiskPct) \div 100
           + TotalRiskUSD(existingPositions, i + 1)

\* ValidateNewPosition, part 3: the held positions of the side and of the
\* group of the new one
sameDirectionSameGroupCount(existingPositions, newSymbol, newSide) ==
    Cardinality({i \in 1..Len(existingPositions) :
                   /\ existingPositions[i].side = newSide
                   /\ getCorrelationGroup(existingPositions[i].symbol)
                        = getCorrelationGroup(newSymbol)
                   /\ getCorrelationGroup(newSymbol) # ""})

\* ValidateNewPosition: TRUE when it returns no error
ValidateNewPosition(existing, newSymbol, newSide, newRiskUSD, totalEquity) ==
    /\ newRiskUSD * 100 <= MaxSingleSymbolPct * totalEquity
    /\ (newRiskUSD + TotalRiskUSD(existing, 1)) * 100
         <= MaxTotalRiskPct * totalEquity
    /\ sameDirectionSameGroupCount(existing, newSymbol, newSide)
         < MaxCorrelatedSymbols

\* the candidate coins of the trader, in their order, and what the agent and
\* the sizing return for each of them
CoinSeq == <<"ETHUSDT", "SOLUSDT", "AVAXUSDT", "NEARUSDT">>
CoinOffers ==
    {NoOffer, Offer("up", 78, "high", 16000, 1),
     Offer("down", 78, "high", 16000, 1)}

\* STEP 3 and STEP 4 over the candidate coins: a coin that is not held and
\* has a valid prediction is opened while slots remain and the margin fits
\* the remaining balance
RECURSIVE OpenCoins(_, _, _, _, _)
OpenCoins(c, offered, i, opened, remainingBalance) ==
    IF i > Len(CoinSeq) THEN <<>>
    ELSE LET sym == CoinSeq[i]
             o == offered[sym]
             requiredMargin == o.positionSize \div o.leverage
         IN IF \/ sym \in HeldSymbols(c.positions)
               \/ o = NoOffer
               \/ ~IsValidPrediction(c.totalPnLPct, o)
               \/ opened >= MaxPositions - Len(c.positions)
               \/ o.positionSize = 0
               \/ requiredMargin > remainingBalance
            THEN OpenCoins(c, offered, i + 1, opened, remainingBalance)
            ELSE <<[reasoning |-> "prediction"] @@
                   Decision(IF o.direction = "down" THEN "open_short"
                            ELSE "open_long",
                            sym, o.positionSize, o.leverage, FALSE, 10000)>>
                 \o OpenCoins(c, offered, i + 1, opened + 1,
                              remainingBalance - requiredMargin)

OpenedSide(d) == IF d.action = "open_long" THEN "long" ELSE "short"

\* the positions of the account once the opens of a list are filled
RECURSIVE Filled(_, _, _)
Filled(positions, list, i) ==
    IF i > Len(list) THEN positions
    ELSE Filled(IF list[i].action \in {"open_long", "open_short"}
                THEN Append(positions,
                            PositionInfoInput(list[i].symbol,
                                              OpenedSide(list[i]),
                                              list[i].positionSizeUSD
                                                \div list[i].leverage))
                ELSE positions,
                list, i + 1)

RECURSIVE MarginOf(_, _)
MarginOf(positions, i) ==
    IF i > Len(positions) THEN 0
    ELSE positions[i].marginUsed + MarginOf(positions, i + 1)

\* the account of a trader that holds the positions, prices unchanged
CoinContext(positions) ==
    [positions |-> positions, totalEquity |-> InitialWallet,
     availableBalance |-> InitialWallet - MarginOf(positions, 1),
     totalPnLPct |-> 0]

InitCoins ==
    /\ ex = InitEx({})
    /\ constraints = [cooldown |-> [sym \in Symbols |-> 0], hourly |-> <<>>]
    /\ at = InitAt(0, 0, FALSE)
    /\ obs = InitObs
    /\ orderManager = [sym \in Symbols |-> NoOrder]
    /\ run = NoRun
    /\ pc = "idle"
    /\ ctx = CoinContext(<<>>)
    /\ dec = [list |-> <<>>]
    /\ tick = 0

\* GetFullDecisionPredictive for an account without a position to manage:
\* the opens of STEP 4, and a wait if there is none
DecideOpens ==
    /\ pc = "idle"
    /\ pc' = "decided"
    /\ \E offered \in [{CoinSeq[i] : i \in 1..Len(CoinSeq)} -> CoinOffers] :
         dec' = [list |->
                   IF OpenCoins(ctx, offered, 1, 0, ctx.availableBalance)
                        = <<>>
                   THEN <<[reasoning |-> ""] @@
                          Decision("wait", "BTCUSDT", 0, 0, FALSE, 0)>>
                   ELSE OpenCoins(ctx, offered, 1, 0, ctx.availableBalance)]
    /\ UNCHANGED <<ex, constraints, orderManager, ctx, tick, obs, at, run>>

\* the decisions are executed and the opens are filled
FillOpens ==
    /\ pc = "decided"
    /\ pc' = "idle"
    /\ ctx' = CoinContext(Filled(ctx.positions, dec.list, 1))
    /\ UNCHANGED <<ex, constraints, orderManager, dec, tick, obs, at, run>>

\* a protective order of the venue closes a position between two cycles
StopOut(i) ==
    /\ pc = "idle"
    /\ i \in 1..Len(ctx.positions)
    /\ ctx' = CoinContext(SubSeq(ctx.positions, 1, i - 1)
                            \o SubSeq(ctx.positions, i + 1,
                                      Len(ctx.positions)))
    /\ UNCHANGED <<ex, constraints, orderManager, pc, dec, tick, obs, at, run>>

NextCoins ==
    \/ DecideOpens
    \/ FillOpens
    \/ \E i \in 1..MaxPositions : StopOut(i)

SpecCoins == InitCoins /\ [][NextCoins]_vars

\* ------------------------------------------- the break-even of the trail
TrailSymbol == "BTCUSDT"
TrailEntries == {10040, 20000}   \* entry prices: 1004 and 2000 USDT
TrailLeverages == {20, 50}
TrailMoves == {-70, -30, -20, 0, 20, 30, 70}  \* the mark less the entry

\* what the trailing-stop loop did for the position in the last GetPositions:
\* whether getCurrentStopLoss found a stop, and the stop that updateStopLoss
\* has set at the venue
Activation(e, entry, side) ==
    [set |-> LastCall(e, "STOP_MARKET", "updateStopLoss", TrailSymbol).ok,
     found |-> /\ LastCall(e, "OPEN_ORDERS", "getCurrentStopLoss",
                           TrailSymbol).ok
               /\ LastCall(e, "CANCEL_ALL", "updateStopLoss",
                           TrailSymbol).price > 0,
     price |-> LastCall(e, "STOP_MARKET", "updateStopLoss", TrailSymbol).price,
     entry |-> entry, side |-> side]
NoActivation ==
    [set |-> FALSE, found |-> FALSE, price |-> 0, entry |-> 0, side |-> NIL]

\* one position of BTCUSDT is held, with or without a stop order at the venue
InitBreakEven ==
    /\ \E side \in Sides, entry \in TrailEntries, lev \in TrailLeverages,
          stop \in BOOLEAN :
         ex = [InitEx({}) EXCEPT
                 !.pos[<<TrailSymbol, side>>] =
                     [qty |-> 15000, entry |-> entry, lev |-> lev],
                 !.mark[TrailSymbol] = entry,
                 !.orders =
                     IF stop
                     THEN <<StopOrder(TrailSymbol, side, "STOP_MARKET",
                                      IF side = "long" THEN entry - 1500
                                      ELSE entry + 1500, 15000)>>
                     ELSE <<>>]
    /\ constraints = [cooldown |-> [sym \in Symbols |-> 0], hourly |-> <<>>]
    /\ orderManager = [sym \in Symbols |-> NoOrder]
    /\ run = NoRun
    /\ pc = "idle"
    /\ ctx = NoCtx
    /\ dec = NoDec
    /\ tick = 0
    /\ obs = [first |-> NoActivation] @@ InitObs
    /\ at = InitAt(0, 0, FALSE)

\* the mark price of the position moves
MarkMove(d) ==
    \E side \in Sides :
      /\ Held(ex, TrailSymbol, side)
      /\ PriceMove(TrailSymbol, ex.pos[<<TrailSymbol, side>>].entry + d)

\* a later tick: the caches have expired and the trader asks for its
\* positions; a query, a cancel or a stop of the trailing loop may fail
TrailFetch ==
    /\ \E side \in Sides : Held(ex, TrailSymbol, side)
    /\ \E f \in IF obs.faults < MaxFaults
                THEN {"none", "list", "cancel", "stop"} ELSE {"none"} :
       \E gp \in {GetPositions(Sleep(NoCalls(ex), CacheDuration), f)} :
         /\ ex' = gp.ex
         /\ obs' = [obs EXCEPT
               !.first = IF Len(gp.res) = 0 THEN @
                         ELSE Activation(gp.ex, gp.res[1].entryPrice,
                                         gp.res[1].side),
               !.trail = [k \in PosKeys |-> Trailed(@[k], gp.ex, k)],
               !.faults = IF f = "none" THEN @ ELSE @ + 1]
    /\ UNCHANGED <<constraints, orderManager, pc, ctx, dec, tick, at, run>>

NextBreakEven ==
    \/ \E d \in TrailMoves : MarkMove(d)
    \/ TrailFetch

SpecBreakEven == InitBreakEven /\ [][NextBreakEven]_vars

\* ------------------------------------------------ the caches of the adapter
\* the requests that change the orders or the positions at the venue
WriteOps == {"MARKET_OPEN", "MARKET_CLOSE", "LIMIT", "CANCEL", "CANCEL_ALL"}
CacheSymbols == {"BTCUSDT", "ETHUSDT"}
CacheQuantity == 5000     \* quantity of every open: 0.5
CacheLimitPrice == 9900   \* price of every limit order: 990 USDT

\* the place in the call log of a step of its last write that the venue
\* accepted, and of its last answered query of a kind; 0 if there is none
LastWrite(e) ==
    LET hit == {i \in 1..Len(e.calls) :
                  e.calls[i].op \in WriteOps /\ e.calls[i].ok}
    IN IF hit = {} THEN 0 ELSE CHOOSE i \in hit : \A j \in hit : j <= i

LastFetch(e, op) ==
    LET hit == {i \in 1..Len(e.calls) : e.calls[i].op = op /\ e.calls[i].ok}
    IN IF hit = {} THEN 0 ELSE CHOOSE i \in hit : \A j \in hit : j <= i

\* the orders and positions of the venue
Venue(e) == <<e.pos, e.orders, e.lim>>

\* after a step from e to e2: a cache holds data that was fetched before a
\* write changed the venue
Outdated(was, e, e2, op, cached) ==
    IF ~cached THEN FALSE
    ELSE IF LastFetch(e2, op) > 0
    THEN LastWrite(e2) > LastFetch(e2, op) /\ Venue(e2) # Venue(e)
    ELSE was \/ (LastWrite(e2) > 0 /\ Venue(e2) # Venue(e))

NoStale == [balance |-> FALSE, positions |-> FALSE, served |-> {}]

\* the bookkeeping of a step of the adapter; served: the caches whose
\* outdated data the step has returned to its caller
Cached(o, e, e2, f, served) ==
    [o EXCEPT
       !.stale = [balance |-> Outdated(@.balance, e, e2, "ACCOUNT",
                                       e2.cachedBalance.cached),
                  positions |-> Outdated(@.positions, e, e2, "POSITIONS",
                                         e2.cachedPositions # <<>>),
                  served |-> served],
       !.faults = IF f = "none" THEN @ ELSE @ + 1]

CacheFaults ==
    IF obs.faults < MaxFaults THEN {"none", "fetch", "cancel", "order"}
    ELSE {"none"}

\* a fresh adapter on an account without positions and orders
InitCache ==
    /\ ex = InitEx({})
    /\ constraints = [cooldown |-> [sym \in Symbols |-> 0], hourly |-> <<>>]
    /\ orderManager = [sym \in Symbols |-> NoOrder]
    /\ run = NoRun
    /\ pc = "idle"
    /\ ctx = NoCtx
    /\ dec = NoDec
    /\ tick = 0
    /\ obs = [stale |-> NoStale] @@ InitObs
    /\ at = InitAt(0, 0, FALSE)

\* the caller reads the account
ReadBalance ==
    /\ \E f \in CacheFaults :
       \E gb \in {GetBalance(NoCalls(ex), f)} :
         /\ ex' = gb.ex
         /\ obs' = Cached(obs, ex, gb.ex, f,
                          IF ex.cachedBalance.cached /\ obs.stale.balance
                          THEN {"balance"} ELSE {})
    /\ UNCHANGED <<constraints, orderManager, pc, ctx, dec, tick, at, run>>

\* the caller reads the positions
ReadPositions ==
    /\ \E f \in CacheFaults :
       \E gp \in {GetPositions(NoCalls(ex), f)} :
         /\ ex' = gp.ex
         /\ obs' = Cached(obs, ex, gp.ex, f,
                          IF ex.cachedPositions # <<>> /\ obs.stale.positions
                          THEN {"positions"} ELSE {})
    /\ UNCHANGED <<constraints, orderManager, pc, ctx, dec, tick, at, run>>

\* OpenLong of a symbol that is not held
WriteOpen(sym) ==
    /\ ~Held(ex, sym, "long")
    /\ \E f \in CacheFaults :
       \E r \in {OpenPosition(NoCalls(ex), sym, "long", CacheQuantity, 1, f)} :
         /\ ex' = r.ex
         /\ obs' = Cached(obs, ex, r.ex, f, {})
    /\ UNCHANGED <<constraints, orderManager, pc, ctx, dec, tick, at, run>>

\* CloseLong of a symbol that is held
WriteClose(sym) ==
    /\ Held(ex, sym, "long")
    /\ \E f \in CacheFaults :
       \E r \in {ClosePosition(NoCalls(ex), sym, "long", f)} :
         /\ ex' = r.ex
         /\ obs' = Cached(obs, ex, r.ex, f, {})
    /\ UNCHANGED <<constraints, orderManager, pc, ctx, dec, tick, at, run>>

\* PlaceLimitOrder for a symbol
WriteLimit(sym) ==
    /\ FreeOrderId(ex) # 0
    /\ \E f \in CacheFaults :
       \E r \in {PlaceLimitOrder(NoCalls(ex), sym, "long", CacheLimitPrice,
                                 CacheQuantity, 1, f)} :
         /\ ex' = r.ex
         /\ obs' = Cached(obs, ex, r.ex, f, {})
    /\ UNCHANGED <<constraints, orderManager, pc, ctx, dec, tick, at, run>>

\* CancelLimitOrder of a resting order
WriteCancel(id) ==
    /\ ex.lim[id].status \in Resting
    /\ \E f \in CacheFaults :
       \E r \in {CancelLimitOrder(NoCalls(ex), ex.lim[id].symbol, id, f)} :
         /\ ex' = r.ex
         /\ obs' = Cached(obs, ex, r.ex, f, {})
    /\ UNCHANGED <<constraints, orderManager, pc, ctx, dec, tick, at, run>>

\* the caches and the cooldowns run out
Expire ==
    /\ ex.cachedBalance.cached \/ ex.cachedPositions # <<>>
         \/ \E sym \in Symbols : ex.lastCloseTimes[sym] > 0
    /\ ex' = Sleep(NoCalls(ex), CooldownDuration)
    /\ obs' = Cached(obs, ex, ex', "none", {})
    /\ UNCHANGED <<constraints, orderManager, pc, ctx, dec, tick, at, run>>

NextCache ==
    \/ ReadBalance
    \/ ReadPositions
    \/ \E sym \in CacheSymbols : WriteOpen(sym)
    \/ \E sym \in CacheSymbols : WriteClose(sym)
    \/ \E sym \in CacheSymbols : WriteLimit(sym)
    \/ \E id \in 1..MaxOrders : WriteCancel(id)
    \/ Expire

SpecCache == InitCache /\ [][NextCache]_vars

\* ------------------------------------------------------- the ticker of Run
\* time is counted in units of which the scan interval has ScanInterval; the
\* channel of a time.Ticker holds one tick and drops those it has no room for
ScanInterval == 3
MaxCycles == 4            \* calls of runCycle in one run
CycleDurations == {1, 3, 4, 7}  \* how long a call of runCycle takes

\* chan: ticks waiting in ticker.C; toTick: time to the ticker's next tick;
\* active: calls of runCycle that have not returned; left: time the running
\* call still takes; late: the running call began behind its tick;
\* isRunning: the flag that Stop clears
Ticker(chan, toTick, active, left, late) ==
    [chan |-> chan, toTick |-> toTick, active |-> active, left |-> left,
     late |-> late, isRunning |-> TRUE]

\* Run has made its ticker and is in the first call of runCycle
InitRun ==
    /\ \E d \in CycleDurations : run = Ticker(0, ScanInterval, 1, d, FALSE)
    /\ pc = "cycle"
    /\ tick = 1
    /\ ex = InitEx({})
    /\ constraints = [cooldown |-> [sym \in Symbols |-> 0], hourly |-> <<>>]
    /\ orderManager = [sym \in Symbols |-> NoOrder]
    /\ ctx = NoCtx
    /\ dec = NoDec
    /\ obs = InitObs
    /\ at = InitAt(0, 0, FALSE)

\* one unit of time passes: the running call goes on, the ticker sends a
\* tick when its interval is over
Pass ==
    /\ pc = "cycle" => run.left > 0
    /\ pc = "select" => run.chan = 0 /\ tick < MaxCycles
    /\ run' = [run EXCEPT
                 !.left = IF @ > 0 THEN @ - 1 ELSE 0,
                 !.toTick = IF @ = 1 THEN ScanInterval ELSE @ - 1,
                 !.chan = IF run.toTick = 1 THEN 1 ELSE @]
    /\ UNCHANGED <<ex, constraints, orderManager, pc, ctx, dec, tick, obs, at>>

\* a loop that starts a call of runCycle for a tick without waiting for the
\* call before to return
ReceiveAndSpawn ==
    /\ run.chan = 1 /\ tick < MaxCycles
    /\ pc' = "cycle"
    /\ tick' = tick + 1
    /\ \E d \in CycleDurations :
         run' = [run EXCEPT !.chan = 0, !.active = @ + 1,
                            !.left = IF d > @ THEN d ELSE @,
                            !.late = run.toTick < ScanInterval]
    /\ UNCHANGED <<ex, constraints, orderManager, ctx, dec, obs, at>>

\* the loop of Run is at its select, takes a tick from ticker.C and calls
\* runCycle
Receive ==
    /\ pc = "select"
    /\ run.chan = 1 /\ tick < MaxCycles
    /\ pc' = "cycle"
    /\ tick' = tick + 1
    /\ \E d \in CycleDurations :
         run' = [run EXCEPT !.chan = 0, !.active = @ + 1, !.left = d,
                            !.late = run.toTick < ScanInterval]
    /\ UNCHANGED <<ex, constraints, orderManager, ctx, dec, obs, at>>

\* runCycle returns: the loop tests isRunning and is at its select again or
\* leaves; the flag is read without synchronisation, so a cleared flag may be
\* seen as still set
Return ==
    /\ pc = "cycle"
    /\ run.left = 0
    /\ pc' \in IF run.isRunning THEN {"select"} ELSE {"select", "done"}
    /\ run' = [run EXCEPT !.active = @ - 1]
    /\ UNCHANGED <<ex, constraints, orderManager, ctx, dec, tick, obs, at>>

\* Stop is called from another goroutine
StopRun ==
    /\ run.isRunning
    /\ run' = [run EXCEPT !.isRunning = FALSE]
    /\ UNCHANGED <<ex, constraints, orderManager, pc, ctx, dec, tick, obs, at>>

NextRun ==
    \/ Pass
    \/ Receive
    \/ Return
    \/ StopRun

SpecRun == InitRun /\ [][NextRun]_vars

\* ------------------------------------------- the positions that disappeared
MaxRecentTrades == 20    \* the TradeEntries that the working memory keeps
MatureTrades == 100      \* the trades after which the memory is mature
ManualCloseWindow == 2   \* minutes a close decision counts as recent
TrackerLifetime == 10    \* minutes after which a tracker entry is dropped
MaxBuilds == 3           \* ticks of a run
BuildSteps == {1, 2, 3, 11}
StopPrices == {8400, 11600}

\* memory.TradeEntry: auto is Signals = {triggerType + "自动触发"}
TradeEntry(action, symbol, side, auto) ==
    [tradeID |-> 0, action |-> action, symbol |-> symbol, side |-> side,
     auto |-> auto]

\* initializeMemory
initializeMemory ==
    [totalTrades |-> 0, status |-> "learning", recentTrades |-> <<>>]

\* an AddTrade that trims the newest entry
AddTradeKeepOldest(m, entry) ==
    LET appended == Append(m.recentTrades,
                           [entry EXCEPT !.tradeID = m.totalTrades + 1])
    IN [totalTrades |-> m.totalTrades + 1,
        status |-> IF m.totalTrades + 1 >= MatureTrades THEN "mature"
                   ELSE m.status,
        recentTrades |-> IF Len(appended) > MaxRecentTrades
                         THEN SubSeq(appended, 1, MaxRecentTrades)
                         ELSE appended]

\* Manager.AddTrade, the memory it leaves
AddTrade(m, entry) ==
    LET appended == Append(m.recentTrades,
                           [entry EXCEPT !.tradeID = m.totalTrades + 1])
    IN [totalTrades |-> m.totalTrades + 1,
        status |-> IF m.totalTrades + 1 >= MatureTrades THEN "mature"
                   ELSE m.status,
        recentTrades |-> IF Len(appended) > MaxRecentTrades
                         THEN Tail(appended) ELSE appended]

\* buildTradingContext: the keys of the positions of the venue's list
currentPositionKeys(positions) ==
    {<<positions[i].symbol, positions[i].side>> : i \in 1..Len(positions)}

\* buildTradingContext: the close decision of a key counts as recent
\* whatever its age
isManualCloseAnyAge(a, key) == a.manualCloseTracker[key] # NoTime

\* buildTradingContext: ts, ok := manualCloseTracker[key];
\* ok && time.Since(ts) < 2*time.Minute
isManualClose(a, key) ==
    /\ a.manualCloseTracker[key] # NoTime
    /\ a.manualCloseTracker[key] < ManualCloseWindow

\* buildTradingContext: the loop over lastPositionSnapshot, the new snapshot
\* and the cleanup of the tracker
RECURSIVE DetectClosed(_, _, _)
DetectClosed(a, positions, i) ==
    IF i > Len(PosKeySeq)
    THEN [a EXCEPT
            !.lastPositionSnapshot = currentPositionKeys(positions),
            !.manualCloseTracker =
               [k \in PosKeys |-> IF @[k] > TrackerLifetime THEN NoTime
                                  ELSE @[k]]]
    ELSE LET key == PosKeySeq[i]
         IN IF \/ key \notin a.lastPositionSnapshot
               \/ key \in currentPositionKeys(positions)
            THEN DetectClosed(a, positions, i + 1)
            ELSE IF isManualClose(a, key)
            THEN DetectClosed([a EXCEPT !.manualCloseTracker[key] = NoTime],
                              positions, i + 1)
            ELSE DetectClosed(
                   [a EXCEPT !.memory =
                      AddTrade(@, TradeEntry("close", key[1], key[2], TRUE))],
                   positions, i + 1)

\* the close decisions that the orchestrator may return for the positions
CloseLists(positions) ==
    {<<>>} \cup
    {<<[action |-> "close_" \o positions[i].side,
        symbol |-> positions[i].symbol]>> : i \in 1..Len(positions)} \cup
    {[i \in 1..Len(positions) |->
        [action |-> "close_" \o positions[i].side,
         symbol |-> positions[i].symbol]]}

\* runCycle, step 9, for close decisions: a decision that succeeded is added
\* to the memory; executeCloseLongWithRecord and executeCloseShortWithRecord
\* add the realized PnL and mark the key in the tracker
RECURSIVE CloseList(_, _, _, _)
CloseList(st, list, i, f) ==
    IF i > Len(list) THEN st
    ELSE With([r \in {executeCloseWithRecord(st.ex, st.constraints,
                                             st.orderManager, list[i], f)} |->
           IF r.err THEN CloseList(r @@ [at |-> st.at], list, i + 1, "none")
           ELSE CloseList(
                  r @@ [at |-> [st.at EXCEPT
                     !.dailyPnL = @ + r.pnl,
                     !.manualCloseTracker[<<list[i].symbol, SideOf(list[i])>>]
                        = 0,
                     !.memory = AddTrade(@, TradeEntry(
                                  "close", list[i].symbol, SideOf(list[i]),
                                  FALSE))]],
                  list, i + 1, f)])

\* what is true of the closures: who closed the positions that e held and
\* e2 does not
ClosedBy(was, e, e2, who) ==
    [k \in PosKeys |-> IF e.pos[k].qty > 0 /\ e2.pos[k].qty = 0 THEN who
                       ELSE was[k]]

\* NewAutoTrader with a long of BTCUSDT and a short of ETHUSDT at the venue;
\* the first cycle has seen them
InitVanish ==
    /\ ex = InitEx({<<"BTCUSDT", "long">>, <<"ETHUSDT", "short">>})
    /\ constraints = [cooldown |-> [sym \in Symbols |-> 0], hourly |-> <<>>]
    /\ orderManager = [sym \in Symbols |-> NoOrder]
    /\ at = [lastPositionSnapshot |->
                {<<"BTCUSDT", "long">>, <<"ETHUSDT", "short">>},
             manualCloseTracker |-> NoOpenTimes,
             memory |-> initializeMemory] @@ InitAt(0, 0, FALSE)
    /\ obs = [closedBy |-> [k \in PosKeys |-> NIL],
              closedAgo |-> NoOpenTimes] @@ InitObs
    /\ run = NoRun
    /\ pc = "idle"
    /\ ctx = NoCtx
    /\ dec = [list |-> <<>>]
    /\ tick = 0

\* the ticker waits for the next tick: the tracker's entries grow older
NextTick(d) ==
    /\ pc = "idle" /\ tick < MaxBuilds
    /\ pc' = "due"
    /\ ex' = Sleep(NoCalls(ex), d)
    /\ at' = [at EXCEPT !.manualCloseTracker =
                           [k \in PosKeys |-> Later(@[k], d)]]
    /\ obs' = [obs EXCEPT !.closedAgo = [k \in PosKeys |-> Later(@[k], d)]]
    /\ UNCHANGED <<constraints, orderManager, ctx, dec, tick, run>>

\* the mark price reaches the stop of a position and the venue closes it
StopReached(sym, p) ==
    /\ pc \in {"idle", "due"} /\ tick < MaxBuilds
    /\ \E side \in Sides : Held(ex, sym, side)
    /\ \E e2 \in {VenueTrigger([NoCalls(ex) EXCEPT !.mark[sym] = p], 1)} :
         /\ \E side \in Sides : Held(ex, sym, side) /\ ~Held(e2, sym, side)
         /\ ex' = e2
         /\ obs' = [obs EXCEPT !.closedBy = ClosedBy(@, ex, e2, "stop")]
    /\ UNCHANGED <<constraints, orderManager, pc, ctx, dec, tick, at, run>>

\* runCycle up to the decisions: buildTradingContext and the close decisions
\* of the orchestrator; a cycle whose context fails ends
BuildAndDecide ==
    /\ pc = "due"
    /\ tick' = tick + 1
    /\ \E f \in IF obs.faults < MaxFaults
                THEN {"none", "balance", "positions"} ELSE {"none"} :
       \E gb \in {GetBalance(NoCalls(ex),
                              IF f = "balance" THEN "fetch" ELSE "none")} :
       \E gp \in {GetPositions(gb.ex,
                                IF f = "positions" THEN "fetch" ELSE "none")} :
         IF gb.err \/ gp.err
         THEN /\ ex' = IF gb.err THEN gb.ex ELSE gp.ex
              /\ pc' = "idle"
              /\ obs' = [obs EXCEPT !.faults = @ + 1]
              /\ UNCHANGED <<at, ctx, dec>>
         ELSE /\ ex' = gp.ex
              /\ pc' = "decided"
              /\ at' = DetectClosed(at, gp.res, 1)
              /\ ctx' = [positions |-> gp.res,
                         totalEquity |-> Equity(gp.ex),
                         availableBalance |-> gb.res.availableBalance]
              /\ \E list \in CloseLists(gp.res) : dec' = [list |-> list]
              /\ obs' = obs
    /\ UNCHANGED <<constraints, orderManager, run>>

\* the rest of the cycle: the close decisions are executed in their order
ExecuteCloses ==
    /\ pc = "decided"
    /\ pc' = "idle"
    /\ \E f \in IF obs.faults < MaxFaults THEN {"none", "order"}
                ELSE {"none"} :
       \E r \in {CloseList(Outcome(NoCalls(ex), constraints, orderManager,
                                   FALSE) @@ [at |-> at],
                           sortDecisionsByPriority(dec.list), 1, f)} :
         /\ ex' = r.ex
         /\ constraints' = r.constraints
         /\ orderManager' = r.orderManager
         /\ at' = r.at
         /\ obs' = [obs EXCEPT
                      !.faults = IF f = "none" \/ dec.list = <<>> THEN @
                                 ELSE @ + 1,
                      !.closedBy = ClosedBy(@, ex, r.ex, "decision"),
                      !.closedAgo = [k \in PosKeys |->
                                       IF ex.pos[k].qty > 0
                                          /\ r.ex.pos[k].qty = 0
                                       THEN 0 ELSE @[k]]]
    /\ ctx' = NoCtx
    /\ dec' = [list |-> <<>>]
    /\ UNCHANGED <<tick, run>>

NextVanish ==
    \/ \E d \in BuildSteps : NextTick(d)
    \/ \E sym \in Symbols, p \in StopPrices : StopReached(sym, p)
    \/ BuildAndDecide
    \/ ExecuteCloses

SpecVanish == InitVanish /\ [][NextVanish]_vars

\* ------------------------------------------------------ the prediction agent
\* probabilities and accuracies are in thousandths, moves in hundredths of a
\* percent
PredictRetries == 3          \* the maxRetries that the orchestrator passes
MinProbabilityValid == 500   \* validatePrediction: probability 0.5 .. 1
MaxProbabilityValid == 1000
MaxExpectedMove == 1000      \* 10%
MaxCase == 1500              \* 15%
NeutralMaxProbability == 600
LowConfidenceMaxProbability == 800
HighConfidenceMinProbability == 550
CalibrationMinAccuracy == 300
CalibrationBase == 500
CalibrationFactorMin == 800
CalibrationFactorMax == 1200
ExtremeRsiHigh == 85
ExtremeRsiLow == 15
ExtremeRsiProbability == 750
CounterTrendProbability == 700
MaxCoins == 2                \* candidate coins of a tick

\* types.Prediction as the agent parses it from the response
AgentPrediction(symbol, direction, probability, expectedMove, bestCase, worstCase, confidence, timeframe, riskLevel) ==
    [symbol |-> symbol, direction |-> direction, probability |-> probability,
     expectedMove |-> expectedMove, bestCase |-> bestCase,
     worstCase |-> worstCase, confidence |-> confidence,
     timeframe |-> timeframe, riskLevel |-> riskLevel]

NoAgentPrediction == AgentPrediction("", NIL, 0, 0, 0, 0, NIL, NIL, NIL)

\* the responses of the model: the call fails, the response holds no JSON,
\* or it parses into a prediction
ResponseDirections == {"up", "short", "neutral", "sideways"}
ResponseProbabilities == {450, 580, 900}
ResponseMoves == {-250, 250, 1100}
ResponseBestCases == {-100, 300}
ResponseWorstCases == {-300, 0, 100}
ResponseConfidences == {"low", "very_high"}
ResponseTimeframes == {"", "2h"}
Responses ==
    {[kind |-> "callFailed", pred |-> NoAgentPrediction],
     [kind |-> "noJSON", pred |-> NoAgentPrediction]} \cup
    {[kind |-> "json",
      pred |-> AgentPrediction("btcusdt", d, p, m, b, w, c, t, "moderate")] :
       d \in ResponseDirections, p \in ResponseProbabilities,
       m \in ResponseMoves, b \in ResponseBestCases,
       w \in ResponseWorstCases, c \in ResponseConfidences,
       t \in ResponseTimeframes}

\* normalizeEnum with the mappings of normalizePrediction
normalizeDirection(v) ==
    CASE v \in {"up", "long", "bull"} -> "up"
      [] v \in {"down", "short", "bear"} -> "down"
      [] OTHER -> v
normalizeTimeframe(v) ==
    CASE v \in {"1h", "1hr"} -> "1h"
      [] v \in {"4h", "4hr"} -> "4h"
      [] v \in {"24h", "1d"} -> "24h"
      [] OTHER -> v
normalizeLevel(v) ==
    CASE v \in {"very_high", "very high", "very-high"} -> "very_high"
      [] v \in {"medium", "moderate", "mid"} -> "medium"
      [] v \in {"very_low", "very low", "very-low"} -> "very_low"
      [] OTHER -> v

\* normalizePrediction
normalizePrediction(pred) ==
    [pred EXCEPT !.direction = normalizeDirection(@),
                 !.timeframe = normalizeTimeframe(@),
                 !.confidence = normalizeLevel(@),
                 !.riskLevel = normalizeLevel(@),
                 !.symbol = IF @ = "btcusdt" THEN "BTCUSDT" ELSE @]

\* PredictionTracker.GetPerformance: AvgAccuracy over the evaluated records
\* of all symbols, 0 without a record
AvgAccuracy(records) ==
    LET S[i \in 0..Len(records)] ==
          IF i = 0 THEN 0 ELSE S[i - 1] + records[i]
    IN IF Len(records) = 0 THEN 0 ELSE S[Len(records)] \div Len(records)

\* calibrateProbability
calibrateProbability(pred, records, sharpeNegative) ==
    [pred EXCEPT
       !.probability =
          IF AvgAccuracy(records) >= CalibrationMinAccuracy
          THEN Max(500, Min(1000,
                 (@ * Max(CalibrationFactorMin,
                          Min(CalibrationFactorMax,
                              (AvgAccuracy(records) * 1000)
                                 \div CalibrationBase))) \div 1000))
          ELSE @,
       !.confidence =
          IF sharpeNegative /\ @ = "very_high" THEN "high"
          ELSE IF sharpeNegative /\ @ = "high" THEN "medium"
          ELSE @]

\* validatePrediction: very_high and very_low become high and low
convertLevels(pred) ==
    [pred EXCEPT
       !.confidence = IF @ = "very_high" THEN "high"
                      ELSE IF @ = "very_low" THEN "low" ELSE @,
       !.riskLevel = IF @ = "very_high" THEN "high"
                     ELSE IF @ = "very_low" THEN "low" ELSE @]

\* a validation without the checks of the signs
validatePredictionRangesOnly(pred) ==
    /\ pred.symbol # ""
    /\ pred.direction \in {"up", "down", "neutral"}
    /\ pred.probability >= MinProbabilityValid
    /\ pred.probability <= MaxProbabilityValid
    /\ Abs(pred.expectedMove) <= MaxExpectedMove
    /\ Abs(pred.bestCase) <= MaxCase
    /\ Abs(pred.worstCase) <= MaxCase
    /\ pred.confidence \in {"high", "medium", "low", "very_high", "very_low"}
    /\ pred.timeframe \in {"1h", "4h", "24h"}
    /\ pred.riskLevel \in {"low", "medium", "high", "very_low", "very_high"}

\* validatePrediction: TRUE when it returns no error
validatePrediction(pred) ==
    /\ pred.symbol # ""
    /\ pred.direction \in {"up", "down", "neutral"}
    /\ pred.probability >= MinProbabilityValid
    /\ pred.probability <= MaxProbabilityValid
    /\ Abs(pred.expectedMove) <= MaxExpectedMove
    /\ Abs(pred.bestCase) <= MaxCase
    /\ Abs(pred.worstCase) <= MaxCase
    /\ pred.confidence \in {"high", "medium", "low", "very_high", "very_low"}
    /\ pred.timeframe \in {"1h", "4h", "24h"}
    /\ pred.riskLevel \in {"low", "medium", "high", "very_low", "very_high"}
    /\ pred.bestCase > pred.worstCase
    /\ pred.direction = "up" =>
         pred.bestCase > 0 /\ pred.worstCase <= 0 /\ pred.expectedMove > 0
    /\ pred.direction = "down" =>
         pred.worstCase < 0 /\ pred.expectedMove < 0
    /\ pred.direction = "neutral" =>
         pred.probability <= NeutralMaxProbability
    /\ ~(/\ pred.probability >= LowConfidenceMaxProbability
         /\ convertLevels(pred).confidence = "low")
    /\ ~(/\ pred.probability < HighConfidenceMinProbability
         /\ convertLevels(pred).confidence = "high")

\* market.Data as the agent reads it: valid is a positive price, an RSI in
\* 0..100 and a timestamp younger than 10 minutes; trend is the strong trend
\* of price, EMA20, EMA50 and MACD
AgentMarketData(valid, rsi, trend) ==
    [valid |-> valid, rsi |-> rsi, trend |-> trend]
AgentMarketDatas ==
    {AgentMarketData(TRUE, 50, "none"), AgentMarketData(FALSE, 50, "none"),
     AgentMarketData(TRUE, 90, "up"), AgentMarketData(TRUE, 10, "down")}

\* validateMarketData: TRUE when it returns no error
validateMarketData(md) == md.valid

\* selectTimeframe
selectTimeframe(md) == "4h"

\* validatePredictionEnhanced: TRUE when it returns no error
validatePredictionEnhanced(pred, md) ==
    /\ ~(/\ pred.direction = "down" /\ md.rsi > ExtremeRsiHigh
         /\ pred.probability > ExtremeRsiProbability)
    /\ ~(/\ pred.direction = "up" /\ md.rsi < ExtremeRsiLow
         /\ pred.probability > ExtremeRsiProbability)
    /\ ~(/\ md.trend = "down" /\ pred.direction = "up"
         /\ pred.probability > CounterTrendProbability)
    /\ ~(/\ md.trend = "up" /\ pred.direction = "down"
         /\ pred.probability > CounterTrendProbability)

\* Predict, from the response of the model on
Predict(response, md, records, sharpeNegative) ==
    IF ~validateMarketData(md) \/ response.kind # "json"
    THEN [err |-> TRUE, pred |-> NoAgentPrediction]
    ELSE With([p \in {calibrateProbability(normalizePrediction(response.pred),
                                           records, sharpeNegative)} |->
           With([q \in {[p EXCEPT !.timeframe =
                           IF @ = "" THEN selectTimeframe(md) ELSE @]} |->
             IF validatePrediction(q)
                /\ validatePredictionEnhanced(convertLevels(q), md)
             THEN [err |-> FALSE, pred |-> convertLevels(q)]
             ELSE [err |-> TRUE, pred |-> NoAgentPrediction]])])

\* a loop that makes one attempt more than maxRetries
PredictWithRetryOneMore(attempt, maxRetries) ==
    attempt + 1 <= Max(maxRetries, 1) + 1

\* PredictWithRetry: another attempt follows the failed one
PredictWithRetryGoesOn(attempt, maxRetries) ==
    attempt + 1 <= Max(maxRetries, 1)

\* the evaluated records of the tracker, by their accuracy
RecordSets == {<<>>, <<600>>, <<600, 600, 600, 600, 600>>}

\* STEP 3 of GetFullDecisionPredictive begins: no candidate is analysed yet
Analysis(md, records, sharpeNegative) ==
    [md |-> md, records |-> records, sharpeNegative |-> sharpeNegative,
     coin |-> 1, attempt |-> 1, attempts |-> 0,
     status |-> [i \in 1..MaxCoins |-> "pending"],
     last |-> NoAgentPrediction, given |-> 0]

InitPredict ==
    /\ ex = InitEx({})
    /\ constraints = [cooldown |-> [sym \in Symbols |-> 0], hourly |-> <<>>]
    /\ orderManager = [sym \in Symbols |-> NoOrder]
    /\ at = InitAt(0, 0, FALSE)
    /\ obs = InitObs
    /\ \E md \in AgentMarketDatas, records \in RecordSets, s \in BOOLEAN :
         run = Analysis(md, records, s)
    /\ pc = "predict"
    /\ ctx = NoCtx
    /\ dec = [list |-> <<>>]
    /\ tick = 0

\* the loop over the candidates goes to the next one
NextCoin(r, outcome, pred, given) ==
    [r EXCEPT !.status[r.coin] = outcome, !.last = pred, !.given = given,
              !.coin = @ + 1, !.attempt = 1, !.attempts = 0]

\* one round of the loop of PredictWithRetry: Predict returns a prediction
\* and the candidate is analysed, or it fails and the loop sleeps or gives up
\* and the candidate is skipped; given is the probability of the response
AttemptPredict ==
    /\ pc = "predict"
    /\ run.coin <= MaxCoins
    /\ \E response \in Responses :
       \E r \in {Predict(response, run.md, run.records, run.sharpeNegative)} :
         IF ~r.err
         THEN /\ run' = NextCoin([run EXCEPT !.attempts = @ + 1],
                                 "predicted", r.pred,
                                 response.pred.probability)
              /\ pc' = "predict"
         ELSE IF PredictWithRetryGoesOn(run.attempt, PredictRetries)
         THEN /\ run' = [run EXCEPT !.attempts = @ + 1]
              /\ pc' = "sleep"
         ELSE /\ run' = NextCoin([run EXCEPT !.attempts = @ + 1],
                                 "skipped", NoAgentPrediction, 0)
              /\ pc' = "predict"
    /\ UNCHANGED <<ex, constraints, orderManager, ctx, dec, tick, obs, at>>

\* time.Sleep(attempt seconds) before the next attempt
SleepBeforeRetry ==
    /\ pc = "sleep"
    /\ pc' = "predict"
    /\ run' = [run EXCEPT !.attempt = @ + 1]
    /\ UNCHANGED <<ex, constraints, orderManager, ctx, dec, tick, obs, at>>

\* the loop over the candidates has ended: STEP 4 goes on with the
\* candidates that were analysed
EndAnalysis ==
    /\ pc = "predict"
    /\ run.coin > MaxCoins
    /\ pc' = "analysed"
    /\ tick' = tick + 1
    /\ UNCHANGED <<ex, constraints, orderManager, ctx, dec, obs, at, run>>

NextPredict ==
    \/ AttemptPredict
    \/ SleepBeforeRetry
    \/ EndAnalysis

SpecPredict == InitPredict /\ [][NextPredict]_vars

\* ------------------------------------------------------ the working memory
MaxAdds == 22            \* calls of AddTrade in one run
MaxAutoEntries == 2      \* auto-triggered entries among them

\* a new trader: the memory is empty; obs.added is every entry that AddTrade
\* was called with, in the order of the calls
InitMemory ==
    /\ ex = InitEx({})
    /\ constraints = [cooldown |-> [sym \in Symbols |-> 0], hourly |-> <<>>]
    /\ orderManager = [sym \in Symbols |-> NoOrder]
    /\ at = [memory |-> initializeMemory] @@ InitAt(0, 0, FALSE)
    /\ obs = [added |-> <<>>, auto |-> 0] @@ InitObs
    /\ run = NoRun
    /\ pc = "flat"
    /\ ctx = NoCtx
    /\ dec = [list |-> <<>>]
    /\ tick = 0

\* runCycle adds the entry of an executed decision: an open when no position
\* is held, a close when one is
AddDecisionTrade ==
    /\ tick < MaxAdds
    /\ tick' = tick + 1
    /\ pc' = IF pc = "flat" THEN "held" ELSE "flat"
    /\ \E entry \in {TradeEntry(IF pc = "flat" THEN "open" ELSE "close",
                                 "BTCUSDT", "long", FALSE)} :
         /\ at' = [at EXCEPT !.memory = AddTrade(@, entry)]
         /\ obs' = [obs EXCEPT !.added =
                      Append(@, [entry EXCEPT !.tradeID = tick + 1])]
    /\ UNCHANGED <<ex, constraints, orderManager, ctx, dec, run>>

\* buildTradingContext adds the entry of a position that disappeared
AddAutoTrade ==
    /\ tick < MaxAdds /\ obs.auto < MaxAutoEntries
    /\ pc = "held"
    /\ tick' = tick + 1
    /\ pc' = "flat"
    /\ \E entry \in {TradeEntry("close", "BTCUSDT", "long", TRUE)} :
         /\ at' = [at EXCEPT !.memory = AddTrade(@, entry)]
         /\ obs' = [obs EXCEPT !.auto = @ + 1,
                      !.added = Append(@, [entry EXCEPT !.tradeID = tick + 1])]
    /\ UNCHANGED <<ex, constraints, orderManager, ctx, dec, run>>

NextMemory ==
    \/ AddDecisionTrade
    \/ AddAutoTrade

SpecMemory == InitMemory /\ [][NextMemory]_vars

\* ---------------------------------------------- the file of the memory
LearningMinTrades == 10  \* trades after which AddTrade updates the summary
MaxSaveCalls == 1        \* calls of AddTrade by one goroutine in one run
InitialTrades == {0, 9}  \* trades in the memory at the start

\* the memory after n closes were added to a new one
RECURSIVE MemoryOf(_)
MemoryOf(n) ==
    IF n = 0 THEN initializeMemory
    ELSE AddTrade(MemoryOf(n - 1), TradeEntry("close", "BTCUSDT", "long", FALSE))

\* UpdateLearningSummary: the trades that have a result are counted; with 10
\* of them the summary is computed from the recent trades (summaryOf is the
\* TradeID of the last trade that the summary has seen)
UpdateLearningSummary(m, summaryOf) ==
    IF Cardinality({i \in 1..Len(m.recentTrades) :
                      m.recentTrades[i].action = "close"}) < LearningMinTrades
    THEN summaryOf
    ELSE m.totalTrades

\* json.MarshalIndent of the memory
Serialized(m, summaryOf) == [memory |-> m, summaryOf |-> summaryOf]

\* the bytes of a serialization: they grow with the trades and the summary
Size(data) == 1 + Len(data.memory.recentTrades) + data.summaryOf

\* a file: no file, or the data written last from its start and the length of
\* the file
NoFile == [exists |-> FALSE, data |-> Serialized(initializeMemory, 0), len |-> 0]
FileOf(data) == [exists |-> TRUE, data |-> data, len |-> Size(data)]
Truncated(file) == [exists |-> TRUE, data |-> file.data, len |-> 0]
Written(file, data) ==
    [exists |-> TRUE, data |-> data, len |-> Max(file.len, Size(data))]

\* the file is the serialization of one state of the memory
Complete(file) == file.exists /\ file.len = Size(file.data)

\* a goroutine in AddTrade: where it is, the bytes it marshalled, the file
\* that its descriptor writes to, and its calls so far
NoSaver == [pc |-> "idle", data |-> Serialized(initializeMemory, 0),
            fd |-> "none", calls |-> 0]

\* NewManager has loaded or initialised the memory and the file holds it
InitSave ==
    /\ ex = InitEx({})
    /\ constraints = [cooldown |-> [sym \in Symbols |-> 0], hourly |-> <<>>]
    /\ orderManager = [sym \in Symbols |-> NoOrder]
    /\ \E n \in InitialTrades :
         /\ at = [memory |-> MemoryOf(n), summaryOf |-> 0]
                   @@ InitAt(0, 0, FALSE)
         /\ run = [writer |-> 0, pending |-> FALSE,
                   tmp |-> NoFile,
                   file |-> FileOf(Serialized(MemoryOf(n), 0)),
                   g |-> [p \in Goroutines |-> NoSaver]]
    /\ obs = [seenPending |-> FALSE, unlockedUpdate |-> FALSE,
              loadFailed |-> FALSE] @@ InitObs
    /\ pc = "running"
    /\ ctx = NoCtx
    /\ dec = [list |-> <<>>]
    /\ tick = 0

\* AddTrade: m.mu.Lock()
LockMemory(p) ==
    /\ pc = "running"
    /\ run.g[p].pc = "idle" /\ run.g[p].calls < MaxSaveCalls
    /\ run.writer = 0
    /\ run' = [run EXCEPT !.writer = p, !.g[p].pc = "append",
                          !.g[p].calls = @ + 1]
    /\ UNCHANGED <<ex, constraints, orderManager, pc, ctx, dec, tick, obs, at>>

\* an AddTrade that releases the lock after the append
AppendTradeAndUnlock(p) ==
    /\ pc = "running"
    /\ run.g[p].pc = "append"
    /\ at' = [at EXCEPT !.memory =
                AddTrade(@, TradeEntry("close", "BTCUSDT", "long", FALSE))]
    /\ run' = [run EXCEPT !.pending = TRUE, !.g[p].pc = "summary",
                          !.writer = 0]
    /\ UNCHANGED <<ex, constraints, orderManager, pc, ctx, dec, tick, obs>>

\* AddTrade: the entry is appended, the list trimmed and the trades counted
AppendTrade(p) ==
    /\ pc = "running"
    /\ run.g[p].pc = "append"
    /\ at' = [at EXCEPT !.memory =
                AddTrade(@, TradeEntry("close", "BTCUSDT", "long", FALSE))]
    /\ run' = [run EXCEPT !.pending = TRUE, !.g[p].pc = "summary"]
    /\ UNCHANGED <<ex, constraints, orderManager, pc, ctx, dec, tick, obs>>

\* AddTrade: from 10 trades on UpdateLearningSummary is called
SummariseTrades(p) ==
    /\ pc = "running"
    /\ run.g[p].pc = "summary"
    /\ at' = [at EXCEPT !.summaryOf =
                IF at.memory.totalTrades >= LearningMinTrades
                THEN UpdateLearningSummary(at.memory, @) ELSE @]
    /\ run' = [run EXCEPT !.pending = FALSE, !.g[p].pc = "unlock"]
    /\ obs' = [obs EXCEPT !.unlockedUpdate = @ \/ run.writer # p]
    /\ UNCHANGED <<ex, constraints, orderManager, pc, ctx, dec, tick>>

\* AddTrade: m.mu.Unlock(), and Save is called
UnlockMemory(p) ==
    /\ pc = "running"
    /\ run.g[p].pc = "unlock"
    /\ run' = [run EXCEPT !.writer = IF @ = p THEN 0 ELSE @,
                          !.g[p].pc = "marshal"]
    /\ UNCHANGED <<ex, constraints, orderManager, pc, ctx, dec, tick, obs, at>>

\* GetContextPrompt, GetOverallStats: the memory is read under the read lock
ReadMemory ==
    /\ pc = "running"
    /\ run.writer = 0
    /\ tick < MaxTicks
    /\ tick' = tick + 1
    /\ obs' = [obs EXCEPT !.seenPending = @ \/ run.pending]
    /\ UNCHANGED <<ex, constraints, orderManager, pc, ctx, dec, at, run>>

\* Save: the memory is marshalled under the read lock
MarshalMemory(p) ==
    /\ pc = "running"
    /\ run.g[p].pc = "marshal"
    /\ run.writer = 0
    /\ run' = [run EXCEPT !.g[p].pc = "open",
                          !.g[p].data = Serialized(at.memory, at.summaryOf)]
    /\ obs' = [obs EXCEPT !.seenPending = @ \/ run.pending]
    /\ UNCHANGED <<ex, constraints, orderManager, pc, ctx, dec, tick, at>>

\* Save, os.WriteFile: the temporary file is created or truncated
OpenTmp(p) ==
    /\ pc = "running"
    /\ run.g[p].pc = "open"
    /\ run' = [run EXCEPT !.g[p].pc = "write", !.g[p].fd = "tmp",
                          !.tmp = Truncated(@)]
    /\ UNCHANGED <<ex, constraints, orderManager, pc, ctx, dec, tick, obs, at>>

\* Save, os.WriteFile: the bytes are written to the file of the descriptor,
\* which another Save may have renamed or replaced in between
WriteTmp(p) ==
    /\ pc = "running"
    /\ run.g[p].pc = "write"
    /\ run' = [run EXCEPT
                 !.g[p].pc = "rename", !.g[p].fd = "none",
                 !.tmp = IF run.g[p].fd = "tmp"
                         THEN Written(@, run.g[p].data) ELSE @,
                 !.file = IF run.g[p].fd = "file"
                          THEN Written(@, run.g[p].data) ELSE @]
    /\ UNCHANGED <<ex, constraints, orderManager, pc, ctx, dec, tick, obs, at>>

\* Save, os.Rename: the temporary file replaces the file; without a
\* temporary file the rename fails and Save returns the error
RenameTmp(p) ==
    /\ pc = "running"
    /\ run.g[p].pc = "rename"
    /\ run' = IF run.tmp.exists
              THEN [run EXCEPT
                      !.file = run.tmp, !.tmp = NoFile,
                      !.g = [q \in Goroutines |->
                               [@[q] EXCEPT
                                  !.pc = IF q = p THEN "idle" ELSE @,
                                  !.fd = IF @ = "tmp" THEN "file"
                                         ELSE IF @ = "file" THEN "orphan"
                                         ELSE @]]]
              ELSE [run EXCEPT !.g[p].pc = "idle"]
    /\ UNCHANGED <<ex, constraints, orderManager, pc, ctx, dec, tick, obs, at>>

\* the process ends at any point
Crash ==
    /\ pc = "running"
    /\ pc' = "crashed"
    /\ UNCHANGED <<ex, constraints, orderManager, ctx, dec, tick, obs, at, run>>

\* the process is started again: NewManager loads the file, and fails on
\* one that does not parse
Reload ==
    /\ pc = "crashed"
    /\ pc' = "loaded"
    /\ at' = IF Complete(run.file)
             THEN [at EXCEPT !.memory = run.file.data.memory,
                             !.summaryOf = run.file.data.summaryOf]
             ELSE at
    /\ obs' = [obs EXCEPT !.loadFailed = ~Complete(run.file)]
    /\ UNCHANGED <<ex, constraints, orderManager, ctx, dec, tick, run>>

NextSave ==
    \/ \E p \in Goroutines :
         \/ LockMemory(p)
         \/ AppendTrade(p)
         \/ SummariseTrades(p)
         \/ UnlockMemory(p)
         \/ MarshalMemory(p)
         \/ OpenTmp(p)
         \/ WriteTmp(p)
         \/ RenameTmp(p)
    \/ ReadMemory
    \/ Crash
    \/ Reload

SpecSave == InitSave /\ [][NextSave]_vars

\* one goroutine calls AddTrade
NextSaveAlone ==
    \/ LockMemory(1)
    \/ AppendTrade(1)
    \/ SummariseTrades(1)
    \/ UnlockMemory(1)
    \/ MarshalMemory(1)
    \/ OpenTmp(1)
    \/ WriteTmp(1)
    \/ RenameTmp(1)
    \/ ReadMemory
    \/ Crash
    \/ Reload

SpecSaveAlone == InitSave /\ [][NextSaveAlone]_vars

\* ----------------------------------------------------------------- claims
OpenCalls(e) ==
    {i \in 1..Len(e.calls) : e.calls[i].op \in {"MARKET_OPEN", "LIMIT"}}

\* C1: no opening order, market or limit, is submitted for a symbol and side
\* while the venue holds a position of that symbol and side
C1_NoOpenOnHeldSide == \A i \in OpenCalls(ex) : ~ex.calls[i].held

\* C2: the opening orders accepted in one tick never bring the margin in use,
\* resting orders of the tick included, above 90% of the account equity
C2_MarginWithinLimit == ~obs.over90

\* C3: the venue never holds more than maxPositions positions at once, limit
\* orders that fill later included
C3_AtMostMaxPositions ==
    Cardinality({k \in PosKeys : ex.pos[k].qty > 0}) <= MaxPositions

\* C4: while the cooldown of a close decision's symbol runs, CanOpenPosition
\* refuses the symbol whatever the position count, and no opening order is
\* submitted and no open decision succeeds for it
C4_CooldownBlocksOpens ==
    \A sym \in Symbols :
        obs.closedLeft[sym] > 0
            => /\ \A n \in 0..MaxPositions :
                     CanOpenPosition(constraints, sym, n) # "ok"
               /\ \A i \in OpenCalls(ex) : ex.calls[i].symbol # sym
               /\ ~(/\ obs.last.symbol = sym /\ ~obs.last.err
                     /\ obs.last.action \in {"open_long", "open_short"})

\* an open decision for a symbol in its cooldown was executed and refused
C4_OpenRefusedInCooldown ==
    \E sym \in Symbols :
        /\ obs.closedLeft[sym] > 0
        /\ obs.last.symbol = sym /\ obs.last.err
        /\ obs.last.action \in {"open_long", "open_short"}

\* C5: once the trailing stop has set a stop for a position, every later stop
\* it sets for that position is at least as favourable: not lower for a long,
\* not higher for a short
C5_TrailingStopOnlyFavourable ==
    \A k \in PosKeys :
        obs.trail[k].prev > 0
            => IF k[2] = "long" THEN obs.trail[k].cur >= obs.trail[k].prev
               ELSE obs.trail[k].cur <= obs.trail[k].prev

\* C6: a position whose stop order failed to be set is given a new attempt at
\* its protective orders by the next tick
C6_NextTickRetriesStop == obs.missed = {}

TrailCancels(e) ==
    {i \in 1..Len(e.calls) :
        e.calls[i].op = "CANCEL_ALL" /\ e.calls[i].by = "updateStopLoss"}

\* C7: a stop update that cancels the old stop submits the new stop as its
\* very next venue call, and one whose cancel fails leaves the old stop
\* resting at the venue
C7_CancelThenSetAtOnce ==
    \A i \in TrailCancels(ex) :
        LET c == ex.calls[i]
        IN IF c.ok
           THEN /\ i < Len(ex.calls)
                /\ ex.calls[i + 1].op = "STOP_MARKET"
                /\ ex.calls[i + 1].by = "updateStopLoss"
                /\ ex.calls[i + 1].symbol = c.symbol
                /\ ex.calls[i + 1].side = c.side
           ELSE c.price > 0
                  => Rests(ex, c.symbol, c.side, "STOP_MARKET", c.price)

\* a stop update cancelled a resting stop
C7_OldStopCancelled ==
    \E i \in TrailCancels(ex) : ex.calls[i].ok /\ ex.calls[i].price > 0

\* C8: the remainder of an order that the reconciliation found
\* PARTIALLY_FILLED no longer rests at the venue once that tick has handled it
C8_RemainderCancelled ==
    \A sym \in Symbols :
        obs.recon[sym].status = "PARTIALLY_FILLED"
            => ex.lim[obs.recon[sym].orderID].status \notin Resting

\* C9: after a partial fill the stop and the take-profit are placed for the
\* filled quantity and the fill is recorded with the trading constraints
C9_ProtectsFilledQuantity ==
    \A sym \in Symbols :
        LET r == obs.recon[sym]
        IN r.status = "PARTIALLY_FILLED" /\ ~r.guard
             => /\ r.recorded
                /\ r.sl.qty = r.executedQty
                /\ r.tp.qty = r.executedQty

C11_SameSideClosedInPass ==
    \A sym \in Symbols :
        obs.recon[sym].status \in {"FILLED", "PARTIALLY_FILLED"}
            => ~obs.recon[sym].conflict

\* the limit orders of a symbol that rest at the venue
RestingLimits(e, sym) ==
    {i \in DOMAIN e.lim : e.lim[i].symbol = sym /\ e.lim[i].status \in Resting}

\* C15: at most one limit order is outstanding per symbol: the only limit
\* order of a symbol that rests at the venue is the one the OrderManager
\* tracks for it.
C15_OneLimitOrderPerSymbol ==
    \A sym \in Symbols :
        RestingLimits(ex, sym) \subseteq {orderManager[sym].orderID}

\* C18: a limit decision for a symbol whose order is tracked and to be
\* replaced cancels the old order before the new one is submitted, and a
\* cancel that fails is still followed by the attempt to place the new order:
\* PlaceLimitOrder is entered and clears the symbol's orders, its first
\* request to the venue.
C18_CancelFirstThenPlace ==
    (pc = "decide" /\ obs.last.replaced # 0) =>
        \A j \in 1..Len(ex.calls) :
            /\ ex.calls[j].op = "LIMIT" =>
                  \E i \in 1..(j - 1) :
                      /\ ex.calls[i].op = "CANCEL"
                      /\ ex.calls[i].by = "CancelLimitOrder"
                      /\ ex.calls[i].qty = obs.last.replaced
            /\ (ex.calls[j].op = "CANCEL" /\ ~ex.calls[j].ok) =>
                  \E k \in (j + 1)..Len(ex.calls) :
                      /\ ex.calls[k].op = "CANCEL_ALL"
                      /\ ex.calls[k].by = "CancelAllOrders"
                      /\ ex.calls[k].symbol = obs.last.symbol

\* an order was replaced although its cancel failed
C18_ReplacedAfterFailedCancel ==
    /\ pc = "decide" /\ obs.last.replaced # 0
    /\ \E j \in 1..Len(ex.calls) : \E k \in (j + 1)..Len(ex.calls) :
          /\ ex.calls[j].op = "CANCEL" /\ ~ex.calls[j].ok
          /\ ex.calls[k].op = "LIMIT" /\ ex.calls[k].ok
          /\ orderManager[obs.last.symbol].orderID
               \notin {0, obs.last.replaced}

C19_BreakerSkipsTick ==
    [][(tick' = tick + 1 /\ at.stopUntil > 0) =>
          /\ pc' = "idle" /\ dec' = NoDec
          /\ ex'.calls = <<>>
          /\ ex'.pos = ex.pos /\ ex'.lim = ex.lim /\ ex'.orders = ex.orders
          /\ obs'.decisions = obs.decisions]_vars

\* a tick was held back by the circuit breaker
C19_TickHeldBack == obs.cut = "breaker" /\ pc = "idle" /\ at.stopUntil > 0

\* C20 as stated: a tick that reaches the risk check with the day's loss
\* beyond maxDailyLoss or the drawdown beyond maxDrawdown sets stopUntil and
\* returns before any decision.
C20_RiskStopsTick ==
    [][(/\ tick' = tick + 1 /\ at.stopUntil = 0 /\ obs'.cut # "context"
        /\ \/ at.dailyPnL * 100 < -(at.maxDailyLoss * at.initialBalance)
           \/ (at.initialBalance - Equity(ex)) * 100
                > at.maxDrawdown * at.initialBalance) =>
          /\ pc' = "idle"
          /\ \E d \in TimeSteps : at'.stopUntil = Elapse(StopTradingTime, d)]_vars

\* C20, amended: the same, for a limit that is set (greater than 0); a
\* limit of 0 is not checked.
C20_SetLimitStopsTick ==
    [][(/\ tick' = tick + 1 /\ at.stopUntil = 0 /\ obs'.cut # "context"
        /\ \/ /\ at.maxDailyLoss > 0
              /\ at.dailyPnL * 100 < -(at.maxDailyLoss * at.initialBalance)
           \/ /\ at.maxDrawdown > 0
              /\ (at.initialBalance - Equity(ex)) * 100
                   > at.maxDrawdown * at.initialBalance) =>
          /\ pc' = "idle"
          /\ obs'.cut \in {"dailyLoss", "drawdown"}
          /\ \E d \in TimeSteps : at'.stopUntil = Elapse(StopTradingTime, d)]_vars

\* a tick was stopped because the day's realized loss was beyond its limit
C20_StoppedByDailyLoss ==
    /\ obs.cut = "dailyLoss" /\ pc = "idle"
    /\ at.dailyPnL * 100 < -(at.maxDailyLoss * at.initialBalance)

\* C14: an open that the orchestrator decided as a limit order is never
\* submitted as a market order, and under useLimitOrders every open is
\* decided as a limit order; the order that is submitted is a limit order.
C14_LimitOpensAreLimitOrders ==
    (pc = "decide" /\ obs.last.action \in {"open_long", "open_short"}) =>
        /\ at.useLimitOrders => obs.last.isLimitOrder
        /\ obs.last.isLimitOrder =>
              \A i \in OpenCalls(ex) : ex.calls[i].op = "LIMIT"

\* C12: after the startup recovery every position that was held without a
\* stop order at the venue and with a record of its symbol and side has the
\* record's stop-loss and take-profit at the venue, and the record is gone
\* from the Order Manager.
C12_StartupRestoresProtection ==
    obs.boot.done =>
      \A k \in PosKeys :
        (/\ Held(ex, k[1], k[2])
         /\ obs.boot.orderMap[k[1]].side = k[2]
         /\ ~\E i \in 1..Len(obs.boot.orders) :
                /\ obs.boot.orders[i].symbol = k[1]
                /\ obs.boot.orders[i].side = k[2]
                /\ obs.boot.orders[i].type = "STOP_MARKET")
        => /\ Rests(ex, k[1], k[2], "STOP_MARKET",
                    obs.boot.orderMap[k[1]].stopLoss)
           /\ Rests(ex, k[1], k[2], "TAKE_PROFIT_MARKET",
                    obs.boot.orderMap[k[1]].takeProfit)
           /\ orderManager[k[1]] = NoOrder

\* C17: when two decisions that run side by side have both replaced the
\* limit order of one symbol and both have returned, one order of the symbol
\* rests at the venue, it is the order the Order Manager tracks, and the
\* file holds the Order Manager's map.
C17_ConcurrentReplaceLeavesOne ==
    (\A p \in Goroutines : run.g[p].pc = "done" /\ run.g[p].replaced) =>
        /\ Cardinality(RestingLimits(ex, ReplaceSymbol)) = 1
        /\ RestingLimits(ex, ReplaceSymbol) =
              {orderManager[ReplaceSymbol].orderID}
        /\ ex.file = orderManager

\* C21: the decisions of a tick are executed one at a time in priority
\* order: no close is executed after an open, a hold or a wait, and no open
\* after a hold or a wait; what has been executed is the beginning of the
\* sorted list, which holds the decisions of the tick's list.
C21_ClosesThenOpensThenHolds ==
    pc \in {"loop", "done"} =>
      /\ \A i, j \in 1..Len(dec.log) :
            i < j =>
              /\ dec.log[j].action \in {"close_long", "close_short"} =>
                    dec.log[i].action \in {"close_long", "close_short"}
              /\ dec.log[j].action \in {"open_long", "open_short"} =>
                    dec.log[i].action \notin {"hold", "wait"}
      /\ Len(dec.log) = dec.i - 1
      /\ \A k \in 1..Len(dec.log) :
            /\ dec.log[k].action = dec.sorted[k].action
            /\ dec.log[k].symbol = dec.sorted[k].symbol
      /\ {<<dec.sorted[k].action, dec.sorted[k].symbol>> :
             k \in 1..Len(dec.sorted)}
           = {<<dec.list[k].action, dec.list[k].symbol>> :
                k \in 1..Len(dec.list)}

\* a list that began with a wait and ended with a close has been executed:
\* the close first, the wait last
C21_ReorderedListExecuted ==
    /\ pc = "done" /\ Len(dec.list) = MaxListed
    /\ dec.list[1].action = "wait"
    /\ dec.list[MaxListed].action = "close_long"
    /\ dec.log[1].action = "close_long"
    /\ dec.log[MaxListed].action = "wait"

\* C22: when an open decision fails on a write to the exchange, the other
\* decisions of the tick are still executed: at the end of the loop every
\* decision of the list has been executed.
C22_FailedOpenAbortsOnlyItself ==
    (/\ pc = "done"
     /\ \E k \in 1..Len(dec.log) :
          /\ dec.log[k].action \in {"open_long", "open_short"}
          /\ dec.log[k].err /\ dec.log[k].fault = "order")
    => \A d \in {dec.list[k] : k \in 1..Len(dec.list)} :
          \E k \in 1..Len(dec.log) :
             /\ dec.log[k].action = d.action
             /\ dec.log[k].symbol = d.symbol

\* an open failed on its order and a later open of the tick succeeded
C22_OpenAfterFailedOpen ==
    /\ pc = "done"
    /\ \E k \in 1..Len(dec.log) :
          /\ dec.log[k].action \in {"open_long", "open_short"}
          /\ dec.log[k].err /\ dec.log[k].fault = "order"
          /\ \E m \in (k + 1)..Len(dec.log) :
                /\ dec.log[m].action \in {"open_long", "open_short"}
                /\ ~dec.log[m].err

\* C23: a position that has been held for less than 15 minutes is never
\* closed by a direction-flip decision
C23_YoungPositionNotFlipClosed ==
    pc = "decided" =>
      \A i \in 1..Len(dec.list) :
        dec.list[i].reasoning = "flip" =>
          obs.age[<<dec.list[i].symbol, SideOf(dec.list[i])>>] >= MinHoldMinutes

\* C23: a position whose open time, as the trader has it (recorded at the
\* open or, without a record, taken as 60 minutes before the position was
\* first seen), is less than 15 minutes ago is never closed by a
\* direction-flip decision
C23_RecordedYoungPositionNotFlipClosed ==
    pc = "decided" =>
      \A j \in 1..Len(ctx.positions) :
        ctx.positions[j].openTime < MinHoldMinutes =>
          \A i \in 1..Len(dec.list) :
            ~ /\ dec.list[i].symbol = ctx.positions[j].symbol
              /\ SideOf(dec.list[i]) = ctx.positions[j].side
              /\ dec.list[i].reasoning = "flip"

\* a position recorded less than 15 minutes ago meets a prediction against
\* its side of more than 65% and is held
C23_YoungPositionHeldAgainstFlip ==
    /\ pc = "decided" /\ dec.hasData
    /\ \E j \in 1..Len(ctx.positions) :
         /\ ctx.positions[j].openTime < MinHoldMinutes
         /\ Flips(ctx.positions[j], dec.prediction)
         /\ dec.prediction.probability > FlipMinProbability
         /\ \E i \in 1..Len(dec.list) :
              /\ dec.list[i].symbol = ctx.positions[j].symbol
              /\ dec.list[i].action = "hold"

\* C24: a position held for exactly 15 minutes that meets a prediction
\* against its side, and that no other rule closes, is closed if and only if
\* the probability of the prediction is at least 80%; otherwise it is held
C24_FlipAtFifteenMinutesNeedsEighty ==
    pc = "decided" /\ dec.hasData /\ dec.prediction # NoPrediction =>
      \A j \in 1..Len(ctx.positions) :
        /\ ctx.positions[j].openTime = MinHoldMinutes
        /\ obs.age[<<ctx.positions[j].symbol, ctx.positions[j].side>>]
             = MinHoldMinutes
        /\ Flips(ctx.positions[j], dec.prediction)
        /\ ctx.positions[j].unrealizedPnLPct >= -(HardStopPct * 100)
        /\ ctx.positions[j].unrealizedPnLPct <= ProfitTakePct * 100
        => \E i \in 1..Len(dec.list) :
             /\ dec.list[i].symbol = ctx.positions[j].symbol
             /\ dec.list[i].action =
                  IF dec.prediction.probability >= 80
                  THEN (IF ctx.positions[j].side = "long" THEN "close_long"
                        ELSE "close_short")
                  ELSE "hold"

NoOpenListed ==
    \A i \in 1..Len(dec.list) :
      dec.list[i].action \notin {"open_long", "open_short"}

\* every position that the close rules mark, with data and a prediction at
\* hand, has its close decision in the list of the tick
ClosesListed ==
    dec.hasData /\ dec.prediction # NoPrediction =>
      \A j \in 1..Len(ctx.positions) :
        shouldClosePositionWithReason(ctx.positions[j], dec.prediction).close
          => \E i \in 1..Len(dec.list) :
               /\ dec.list[i].symbol = ctx.positions[j].symbol
               /\ dec.list[i].action =
                    IF ctx.positions[j].side = "long" THEN "close_long"
                    ELSE "close_short"

\* the execution of the list closes the positions with a close decision
ClosesExecuted ==
    \A i \in 1..Len(dec.list) :
      dec.list[i].action \in {"close_long", "close_short"} =>
        ex'.pos[<<dec.list[i].symbol, SideOf(dec.list[i])>>].qty = 0

\* the execution of the list opens no position
NoOpenExecuted ==
    \A k \in PosKeys : ex.pos[k].qty = 0 => ex'.pos[k].qty = 0

\* C26: when the account's total loss is exactly 20.00%, no open decision is
\* emitted or executed, and the close decisions for the held positions are
\* produced and executed
C26_NoOpenAtTwentyPercentLoss ==
    /\ [](pc = "decided" /\ ctx.totalPnLPct = -(AccountHaltPct * 100)
            => NoOpenListed /\ ClosesListed)
    /\ [][pc = "decided" /\ pc' = "idle"
             /\ ctx.totalPnLPct = -(AccountHaltPct * 100)
            => ClosesExecuted /\ NoOpenExecuted]_vars

\* C26: when the account's total loss is more than 20%, no open decision
\* is emitted or executed; at a loss of 20% or more the close decisions for
\* the held positions are produced and executed
C26_NoOpenBeyondTwentyPercentLoss ==
    /\ [](pc = "decided" /\ ctx.totalPnLPct < -(AccountHaltPct * 100)
            => NoOpenListed)
    /\ [](pc = "decided" /\ ctx.totalPnLPct <= -(AccountHaltPct * 100)
            => ClosesListed)
    /\ [][pc = "decided" /\ pc' = "idle"
             /\ ctx.totalPnLPct < -(AccountHaltPct * 100)
            => NoOpenExecuted]_vars
    /\ [][pc = "decided" /\ pc' = "idle"
             /\ ctx.totalPnLPct <= -(AccountHaltPct * 100)
            => ClosesExecuted]_vars

\* the account has lost more than 20%, a candidate is predicted at 85% with
\* high confidence and a position of 160 USDT, and the list closes the
\* position held and opens nothing
C26_CloseOnlyBeyondTwenty ==
    /\ pc = "decided" /\ ctx.totalPnLPct < -(AccountHaltPct * 100)
    /\ \E sym \in DOMAIN dec.offered :
         /\ dec.offered[sym].probability = 85
         /\ dec.offered[sym].confidence = "high"
         /\ dec.offered[sym].direction # "neutral"
         /\ dec.offered[sym].positionSize > 0
    /\ \E i \in 1..Len(dec.list) : dec.list[i].action = "close_long"
    /\ NoOpenListed

\* C27: the risk parameters of every open decision, long or short, have a
\* reward of at least 2.0 * (1 - 0.05) times the risk, and a stop that keeps
\* LiquidationSafetyRatio of the distance between entry and liquidation
\* price away from the liquidation price
C27_RiskParametersSafe ==
    pc = "emitted" =>
      \A i \in 1..Len(dec.list) :
        /\ RiskRewardOk(
             StopDistance(dec.list[i].action = "open_long",
                          dec.list[i].currentPrice, dec.list[i].stopLoss),
             TargetDistance(dec.list[i].action = "open_long",
                            dec.list[i].currentPrice, dec.list[i].takeProfit))
        /\ SafeFromLiquidation(dec.list[i].action = "open_long",
                               dec.list[i].currentPrice, dec.list[i].stopLoss,
                               dec.list[i].leverage)

\* C28: no open decision is emitted for a coin when the account already
\* holds two positions of that side within the correlation group of the coin
C28_OpensPassCorrelationGate ==
    pc = "decided" =>
      \A i \in 1..Len(dec.list) :
        dec.list[i].action \in {"open_long", "open_short"} =>
          sameDirectionSameGroupCount(ctx.positions, dec.list[i].symbol,
                                      OpenedSide(dec.list[i]))
            < MaxCorrelatedSymbols

C30_NoCachedDataFromBeforeWrite == obs.stale.served = {}

\* C31: at most one call of runCycle is in progress at any time, a call is
\* only ever ended by its own return after its whole duration, and a call
\* begins only when no other is in progress
C31_TicksNeverOverlap ==
    /\ [](run.active <= 1)
    /\ [][run'.active < run.active => run.left = 0]_vars
    /\ [][run'.active > run.active => run.active = 0]_vars

\* C31: a call of runCycle that began behind its tick, because the call
\* before it took longer than the scan interval
C31_DelayedTickRuns ==
    /\ pc = "cycle" /\ run.late
    /\ run.active = 1

\* the auto-triggered TradeEntries of a position in the working memory
AutoEntries(m, k) ==
    Cardinality({i \in 1..Len(m.recentTrades) :
                   /\ m.recentTrades[i].auto
                   /\ m.recentTrades[i].symbol = k[1]
                   /\ m.recentTrades[i].side = k[2]})

\* the entries that a decision of the trader left for a position
DecisionEntries(m, k) ==
    Cardinality({i \in 1..Len(m.recentTrades) :
                   /\ ~m.recentTrades[i].auto
                   /\ m.recentTrades[i].action = "close"
                   /\ m.recentTrades[i].symbol = k[1]
                   /\ m.recentTrades[i].side = k[2]})

\* a close decision for the position was executed less than 2 minutes ago
RecentlyClosedByDecision(k) ==
    obs.closedAgo[k] # NoTime /\ obs.closedAgo[k] < ManualCloseWindow

\* C32: when buildTradingContext finds that a position of the previous
\* snapshot is not held any more, it adds one auto-triggered TradeEntry for it
\* to the memory if and only if no close decision for the position was
\* executed within the last 2 minutes; it adds none for any other position
C32_AutoEntryIffNoRecentCloseDecision ==
    [][pc = "due" /\ pc' = "decided" =>
         \A k \in PosKeys :
            IF k \in at.lastPositionSnapshot /\ ex'.pos[k].qty = 0
            THEN IF RecentlyClosedByDecision(k)
                 THEN AutoEntries(at'.memory, k) = AutoEntries(at.memory, k)
                 ELSE AutoEntries(at'.memory, k)
                        = AutoEntries(at.memory, k) + 1
            ELSE AutoEntries(at'.memory, k) = AutoEntries(at.memory, k)]_vars

\* C32 witness: one build has seen a position that a recent close decision
\* closed and one that a stop closed, and the memory holds an auto-triggered
\* entry for the second only
C32_BothKindsSeen ==
    /\ pc = "decided"
    /\ at.lastPositionSnapshot = {}
    /\ \E k, j \in PosKeys :
         /\ obs.closedBy[k] = "decision" /\ RecentlyClosedByDecision(k)
         /\ AutoEntries(at.memory, k) = 0
         /\ obs.closedBy[j] = "stop" /\ AutoEntries(at.memory, j) = 1

\* C40: a position that an executed close decision closed has the TradeEntry
\* of that decision in the memory and no auto-triggered entry, in every later
\* tick
C40_DecidedCloseRecordedOnce ==
    \A k \in PosKeys :
       obs.closedBy[k] = "decision" =>
          /\ DecisionEntries(at.memory, k) = 1
          /\ AutoEntries(at.memory, k) = 0

\* C33: PredictWithRetry calls Predict at most 3 times for a candidate; a call
\* that returns a prediction ends the attempts for the candidate, which is
\* then analysed with that prediction; after the third failure the candidate
\* is skipped and the loop goes on with the next candidate
C33_AtMostThreeAttempts ==
    /\ [](run.attempts <= PredictRetries /\ run.attempt <= PredictRetries)
    /\ [][pc = "predict" /\ run.coin <= MaxCoins =>
            \/ /\ run'.status[run.coin] = "predicted"
               /\ run'.last # NoAgentPrediction
               /\ run'.coin = run.coin + 1 /\ pc' = "predict"
            \/ /\ run.attempts + 1 < PredictRetries
               /\ run'.status[run.coin] = "pending"
               /\ run'.coin = run.coin /\ pc' = "sleep"
            \/ /\ run.attempts + 1 = PredictRetries
               /\ run'.status[run.coin] = "skipped"
               /\ run'.coin = run.coin + 1 /\ pc' = "predict"]_vars

\* C33 witness: the first candidate was skipped after three failures and the
\* second was analysed with a prediction
C33_SkippedThenPredicted ==
    /\ pc = "analysed"
    /\ run.status[1] = "skipped" /\ run.status[2] = "predicted"
    /\ run.last # NoAgentPrediction

\* the prediction that Predict returned last
AcceptedPrediction == run.last # NoAgentPrediction

C35_FewRecordsLeaveProbability ==
    AcceptedPrediction /\ Len(run.records) < 5 =>
       run.last.probability = run.given

\* the last n elements of a sequence, all of them when it is shorter
LastOf(s, n) == IF Len(s) <= n THEN s ELSE SubSeq(s, Len(s) - n + 1, Len(s))

\* C36: after any sequence of AddTrade calls the working memory holds at most
\* 20 entries, and they are the entries added last, in the order in which
\* they were added
C36_MemoryHoldsLastTwenty ==
    /\ Len(at.memory.recentTrades) <= MaxRecentTrades
    /\ at.memory.recentTrades = LastOf(obs.added, MaxRecentTrades)

\* C36 witness: more than 20 entries were added and the oldest are gone
C36_OldestTrimmed ==
    /\ Len(obs.added) > MaxRecentTrades
    /\ Len(at.memory.recentTrades) = MaxRecentTrades
    /\ at.memory.recentTrades[1].tradeID = Len(obs.added) - MaxRecentTrades + 1

\* C37: at every moment the file of the memory is the complete serialization
\* of one state of the memory, with goroutines that call AddTrade at the same
\* time and a crash at any point
C37_FileAlwaysComplete == Complete(run.file)

\* C38: no reader sees the memory between the append of AddTrade and its
\* update of the learning summary, and the summary is only updated by the
\* goroutine that holds the write lock
C38_AppendAndSummaryUnderOneLock ==
    /\ ~obs.seenPending
    /\ ~obs.unlockedUpdate
    /\ run.pending => run.writer # 0

\* C38 witness: the summary was updated for the tenth trade, both goroutines
\* have added a trade and a reader has read in between
C38_SummaryUpdatedAndRead ==
    /\ at.summaryOf >= LearningMinTrades
    /\ at.memory.totalTrades = 11
    /\ tick > 0

\* the orders of a symbol other than its stop-loss orders
OtherOrders(e, symbol) ==
    SelectSeq(e.orders,
              LAMBDA o : o.symbol = symbol /\ o.type # "STOP_MARKET")

\* the symbols whose stop a step moved through updateStopLoss
TrailUpdated(e, after) ==
    {sym \in Symbols :
        /\ after.calls # e.calls
        /\ LastCall(after, "STOP_MARKET", "updateStopLoss", sym).ok}

\* C39: a trailing-stop update changes only the stop-loss order of the
\* position: the take-profit order and every other open order of the symbol
\* that rested at the venue before the update still rests after it
C39_TrailKeepsOtherOrders ==
    [][\A sym \in TrailUpdated(ex, ex') :
          OtherOrders(ex', sym) = OtherOrders(ex, sym)]_vars

====
